---- MODULE Spec2Model ----
(***************************************************************************)
(* A model of the OpenBB backend validators:                               *)
(*   scripts/validate_apps.py     AppsValidator                            *)
(*   scripts/validate_widgets.py  WidgetValidator                          *)
(* One run of one validator over a pair of parsed JSON documents is a      *)
(* behaviour: the documents are fixed by Init, the actions are the steps   *)
(* of validate() (one per loop iteration / handler call), and a Python     *)
(* exception leaving validate() is the terminal state pc = "raised".       *)
(***************************************************************************)
EXTENDS Integers, Sequences, FiniteSets, TLC

VARIABLES
  tool,              \* which validator class this run instantiates
  widgetsDoc,        \* parsed widgets.json (input, never written)
  appsDoc,           \* parsed apps.json (input, never written)
  pc,                \* position inside validate()
  errors,            \* self.errors
  warnings,          \* self.warnings
  widget_ids,        \* self.widget_ids
  endpoint_names,    \* WidgetValidator.endpoint_names
  layouts_validated, \* AppsValidator.layouts_validated
  positions,         \* the local list `positions` of _validate_tab
  ai, ti, ki,        \* loop cursors: app, tab, layout item (widget index for WidgetValidator)
  result,            \* what validate() returned: "none" | "pass" | "fail"
  rectA, rectB,      \* the arguments of one call of _rectangles_overlap
  overlaps,          \* and what it returned
  run,               \* which call of validate() on this validator object: 1 or 2
  firstErrors,       \* errors and warnings as the first call left them
  firstWarnings,
  runner,            \* validate_app.py: its stage, its locals and its exit code
  results,           \* EndpointValidator.results
  requests,          \* the HTTP calls made so far, each with the reply it drew
  active_connections, \* html_widget/main.py: stream key -> set of WebSockets
  tasks,             \* the connect_to_binance_websocket tasks created so far
  sockets,           \* each WebSocket: position of its handler, its key, its peer
  received,          \* the candles each WebSocket was sent, in order
  published          \* per stream key, the kline messages Binance has sent

vars == <<tool, widgetsDoc, appsDoc, pc, errors, warnings, widget_ids,
          endpoint_names, layouts_validated, positions, ai, ti, ki, result,
          rectA, rectB, overlaps, run, firstErrors, firstWarnings, runner,
          results, requests, active_connections, tasks, sockets, received,
          published>>

(***************************************************************************)
(* Bounds of the document family and program constants.                    *)
(***************************************************************************)
MaxApps == 2
MaxTabs == 2
MaxItems == 3
MaxWidgets == 2
MaxCoord == 2
MaxSide == 2
MaxClients == 2
MaxCandles == 2
GridWidth == 40
DefaultX == 0
DefaultY == 0
DefaultW == 12
DefaultH == 8

(***************************************************************************)
(* JSON values.  A number is Num(n); every other JSON type a coordinate    *)
(* can hold (string, list, object, null) is NonNum: Python's isinstance    *)
(* (v, (int, float)) is false for it and an ordering comparison with an    *)
(* int raises TypeError.  NoKey stands for a key that is not in the dict.  *)
(***************************************************************************)
Num(n) == [t |-> "num", n |-> n]
NonNum == [t |-> "str", n |-> 0]
NoKey == [t |-> "absent", n |-> 0]
Absent == "<absent>"

\* dict.get(key, default)
Get(v, d) == IF v.t = "absent" THEN Num(d) ELSE v
\* isinstance(v, (int, float))
IsNum(v) == v.t = "num"

\* A widget reference `i`: a string, a non-empty list (truthy, unhashable),
\* or missing / falsy (absent, null, "", 0, [], {}).
IdStr(s) == [t |-> "str", s |-> s]
IdList == [t |-> "list", s |-> ""]
IdNone == [t |-> "none", s |-> ""]
TruthyOrNone(i) == i.t \in {"list", "none"} \/ (i.t = "str" /\ i.s # "")

Truthy(i) == i.t = "list" \/ (i.t = "str" /\ i.s # "")
Hashable(i) == i.t # "list"

SeqIf(c, e) == IF c THEN <<e>> ELSE <<>>

\* A diagnostic: its kind, the location prefix (app, tab, item) and a detail.
Diag(kind, loc, detail) == <<kind, loc, detail>>
CountKind(ds, kind) == Cardinality({k \in 1..Len(ds) : ds[k][1] = kind})
CountAt(ds, kind, loc) ==
  Cardinality({k \in 1..Len(ds) : ds[k][1] = kind /\ ds[k][2] = loc})

(***************************************************************************)
(* AppsValidator._rectangles_overlap                                       *)
(***************************************************************************)
RectanglesOverlapTouching(x1, y1, w1, h1, x2, y2, w2, h2) ==
  ~ (x1 + w1 < x2 \/ x2 + w2 < x1 \/ y1 + h1 < y2 \/ y2 + h2 < y1)

RectanglesOverlapOneSided(x1, y1, w1, h1, x2, y2, w2, h2) ==
  ~ (x1 + w1 <= x2 \/ y1 + h1 <= y2)

RectanglesOverlap(x1, y1, w1, h1, x2, y2, w2, h2) ==
  ~ (x1 + w1 <= x2 \/ x2 + w2 <= x1 \/ y1 + h1 <= y2 \/ y2 + h2 <= y1)

(***************************************************************************)
(* AppsValidator._validate_widget_state                                    *)
(***************************************************************************)
StateSubErr(loc, st, key) ==
  SeqIf(st[key] = "nonobj", Diag("state_sub_must_be_object", loc, key))

ValidateWidgetState(loc, st) ==
  IF st.t # "obj"
  THEN <<Diag("state_must_be_object", loc, "")>>
  ELSE StateSubErr(loc, st, "params") \o StateSubErr(loc, st, "chartView")
         \o StateSubErr(loc, st, "columnState")

(***************************************************************************)
(* AppsValidator._validate_layout_item, in the order of its statements.    *)
(* The result is what the call appends to errors and warnings, the new     *)
(* value of the caller's `positions`, and whether it raised.               *)
(***************************************************************************)
IdText(i) == IF i.t = "list" THEN "[list]" ELSE i.s

\* lines 190-194: the reference check
UnknownWidgetLoose(wids, i) == i.s \notin wids

UnknownWidget(wids, i) == wids # {} /\ i.s \notin wids

\* lines 202-207: the type checks, a loop that always completes
TypeErrs(loc, cs) ==
  SeqIf(~IsNum(cs[1]), Diag("must_be_number", loc, "x"))
    \o SeqIf(~IsNum(cs[2]), Diag("must_be_number", loc, "y"))
    \o SeqIf(~IsNum(cs[3]), Diag("must_be_number", loc, "w"))
    \o SeqIf(~IsNum(cs[4]), Diag("must_be_number", loc, "h"))

\* lines 209-217: the first comparison of a non-number with 0 raises TypeError
FirstNonNum(cs) ==
  IF \E k \in 1..4 : ~IsNum(cs[k])
  THEN CHOOSE k \in 1..4 : ~IsNum(cs[k]) /\ \A j \in 1..(k - 1) : IsNum(cs[j])
  ELSE 5

RangeKind == <<"x_negative", "y_negative", "w_not_positive", "h_not_positive">>
CoordName == <<"x", "y", "w", "h">>
RangeViolated(k, v) == IF k <= 2 THEN v.n < 0 ELSE v.n <= 0

RangeErrs(loc, cs) ==
  LET stop == FirstNonNum(cs)
      F[k \in 0..4] ==
        IF k = 0 THEN <<>>
        ELSE F[k - 1] \o SeqIf(k < stop /\ RangeViolated(k, cs[k]),
                               Diag(RangeKind[k], loc, CoordName[k]))
  IN F[4]

\* lines 219-224: the grid bounds check
BoundsExceededInclusive(x, w) == x + w >= GridWidth

BoundsExceeded(x, w) == x + w > GridWidth

\* lines 226-232: the overlap loop stops at the first overlapping entry
OverlapsAt(pos, k, x, y, w, h) ==
  RectanglesOverlap(x, y, w, h, pos[k][2], pos[k][3], pos[k][4], pos[k][5])

OverlapWarningsAll(loc, pos, x, y, w, h) ==
  LET F[k \in 0..Len(pos)] ==
        IF k = 0 THEN <<>>
        ELSE F[k - 1] \o SeqIf(OverlapsAt(pos, k, x, y, w, h),
                               Diag("may_overlap", loc, IdText(pos[k][1])))
  IN F[Len(pos)]

OverlapWarnings(loc, pos, x, y, w, h) ==
  LET hits == {k \in 1..Len(pos) : OverlapsAt(pos, k, x, y, w, h)}
  IN IF hits = {} THEN <<>>
     ELSE LET k == CHOOSE m \in hits : \A n \in hits : m <= n
          IN <<Diag("may_overlap", loc, IdText(pos[k][1]))>>

\* lines 240-250: the item's own `groups` list
ItemGroupsErrs(loc, g) ==
  IF g.t = "absent" THEN <<>>
  ELSE IF g.t # "list" THEN <<Diag("item_groups_must_be_array", loc, "")>>
  ELSE LET F[k \in 0..Len(g.gs)] ==
             IF k = 0 THEN <<>>
             ELSE F[k - 1] \o SeqIf(~g.gs[k], Diag("group_name_must_be_string", loc, ""))
       IN F[Len(g.gs)]

Outcome(e, w, p, r) == [errs |-> e, warns |-> w, pos |-> p, raised |-> r]

ValidateLayoutItem(loc, item, wids, pos) ==
  IF item.kind # "obj"
  THEN Outcome(<<Diag("item_must_be_object", loc, "")>>, <<>>, pos, FALSE)
  ELSE IF ~Truthy(item.i)
  THEN Outcome(<<Diag("missing_widget_id", loc, "")>>, <<>>, pos, FALSE)
  ELSE IF wids # {} /\ ~Hashable(item.i)
  THEN Outcome(<<>>, <<>>, pos, TRUE)       \* `in` on a set hashes its operand
  ELSE
    LET cs == <<Get(item.x, DefaultX), Get(item.y, DefaultY),
                Get(item.w, DefaultW), Get(item.h, DefaultH)>>
        refErr == SeqIf(UnknownWidget(wids, item.i),
                        Diag("widget_not_found", loc, IdText(item.i)))
        e1 == refErr \o TypeErrs(loc, cs) \o RangeErrs(loc, cs)
    IN IF FirstNonNum(cs) <= 4
       THEN Outcome(e1, <<>>, pos, TRUE)
       ELSE
         LET x == cs[1].n
             y == cs[2].n
             w == cs[3].n
             h == cs[4].n
             e2 == e1 \o SeqIf(BoundsExceeded(x, w),
                               Diag("beyond_grid", loc, IdText(item.i)))
             e3 == e2
                   \o (IF item.state.t = "absent" THEN <<>>
                       ELSE ValidateWidgetState(loc, item.state))
                   \o ItemGroupsErrs(loc, item.groups)
         IN Outcome(e3, OverlapWarnings(loc, pos, x, y, w, h),
                    Append(pos, <<item.i, x, y, w, h>>), FALSE)

(***************************************************************************)
(* JSON containers: [t, xs].  t = "list" / "obj" carries the elements xs   *)
(* (an object's entries in insertion order); "absent" is a missing key,    *)
(* "falsy" the present value null (false for Python, not iterable, no     *)
(* .get), "other" a non-zero number (true for Python, not iterable, no     *)
(* .get, no `in`).                                                         *)
(***************************************************************************)
JAbsent == [t |-> "absent", xs |-> <<>>]
JFalsy == [t |-> "falsy", xs |-> <<>>]
JOther == [t |-> "other", xs |-> <<>>]
JList(xs) == [t |-> "list", xs |-> xs]
JObj(xs) == [t |-> "obj", xs |-> xs]
\* `not v`
IsFalsy(v) == v.t \in {"absent", "falsy"} \/ (v.t \in {"list", "obj"} /\ Len(v.xs) = 0)

(***************************************************************************)
(* AppsValidator._validate_group                                           *)
(***************************************************************************)
GroupOutcome(e, w, r) == [errs |-> e, warns |-> w, raised |-> r]

ValidGroupTypes == {"param", "endpointParam"}

GroupIdErrsWithoutEmptySetTest(loc, wids, ids) ==
  LET F[k \in 0..Len(ids)] ==
        IF k = 0 THEN <<>>
        ELSE F[k - 1] \o SeqIf(ids[k].s \notin wids,
                               Diag("group_unknown_widget", loc, IdText(ids[k])))
  IN [errs |-> F[Len(ids)], raised |-> FALSE]

\* lines 321-325: the loop over widgetIds; `in` raises on an unhashable id
GroupIdErrs(loc, wids, ids) ==
  LET stop == IF wids # {} /\ \E k \in 1..Len(ids) : ~Hashable(ids[k])
              THEN CHOOSE k \in 1..Len(ids) :
                     ~Hashable(ids[k]) /\ \A j \in 1..(k - 1) : Hashable(ids[j])
              ELSE Len(ids) + 1
      F[k \in 0..Len(ids)] ==
        IF k = 0 THEN <<>>
        ELSE F[k - 1] \o SeqIf(k < stop /\ UnknownWidget(wids, ids[k]),
                               Diag("group_unknown_widget", loc, IdText(ids[k])))
  IN [errs |-> F[Len(ids)], raised |-> stop <= Len(ids)]

ValidateGroup(loc, g, wids) ==
  IF g.kind # "obj"
  THEN GroupOutcome(<<Diag("group_must_be_object", loc, "")>>, <<>>, FALSE)
  ELSE
    LET e1 == SeqIf(~g.name, Diag("missing_group_name", loc, ""))
        w1 == SeqIf(g.type \notin {Absent, ""} /\ g.type \notin ValidGroupTypes,
                    Diag("unknown_group_type", loc, g.type))
              \o SeqIf(~g.paramName, Diag("missing_paramName", loc, ""))
    IN IF IsFalsy(g.widgetIds)
       THEN GroupOutcome(e1, w1 \o <<Diag("no_widgets_in_group", loc, "")>>, FALSE)
       ELSE IF g.widgetIds.t # "list"
       THEN GroupOutcome(e1 \o <<Diag("widgetIds_must_be_array", loc, "")>>, w1, FALSE)
       ELSE LET r == GroupIdErrs(loc, wids, g.widgetIds.xs)
            IN GroupOutcome(e1 \o r.errs, w1, r.raised)

(***************************************************************************)
(* AppsValidator._validate_app, lines 120-139: groups, then prompts.       *)
(***************************************************************************)
GroupsPart(a, app, wids) ==
  IF IsFalsy(app.groups) THEN GroupOutcome(<<>>, <<>>, FALSE)
  ELSE IF app.groups.t # "list"
  THEN GroupOutcome(<<Diag("groups_must_be_array", <<a, 0, 0>>, "")>>, <<>>, FALSE)
  ELSE
    LET gs == app.groups.xs
        R[k \in 0..Len(gs)] ==
          IF k = 0 THEN GroupOutcome(<<>>, <<>>, FALSE)
          ELSE IF R[k - 1].raised THEN R[k - 1]
          ELSE LET r == ValidateGroup(<<a, 0, k>>, gs[k], wids)
               IN GroupOutcome(R[k - 1].errs \o r.errs, R[k - 1].warns \o r.warns,
                               r.raised)
    IN R[Len(gs)]

PromptsPart(a, app) ==
  IF IsFalsy(app.prompts) THEN <<>>
  ELSE IF app.prompts.t # "list" THEN <<Diag("prompts_must_be_array", <<a, 0, 0>>, "")>>
  ELSE LET ps == app.prompts.xs
           F[k \in 0..Len(ps)] ==
             IF k = 0 THEN <<>>
             ELSE F[k - 1] \o SeqIf(~ps[k], Diag("prompt_must_be_string", <<a, 0, k>>, ""))
       IN F[Len(ps)]

(***************************************************************************)
(* AppsValidator._validate_app, lines 92-115: name, description, images    *)
(* and the type of `tabs`.  An app that is a number (or null, a boolean)   *)
(* raises at the first `in`; a string or a list passes the `in` tests and  *)
(* raises at app.get.                                                      *)
(***************************************************************************)
ImgKeys == <<"img", "img_dark", "img_light">>

ImgErrs(a, app) ==
  LET F[k \in 0..3] ==
        IF k = 0 THEN <<>>
        ELSE F[k - 1] \o SeqIf(app.imgs[k] = "nonstr",
                               Diag("img_must_be_string", <<a, 0, 0>>, ImgKeys[k]))
  IN F[3]

ImgWarns(a, app) ==
  LET F[k \in 0..3] ==
        IF k = 0 THEN <<>>
        ELSE F[k - 1] \o SeqIf(app.imgs[k] = "relative",
                               Diag("img_should_be_absolute", <<a, 0, 0>>, ImgKeys[k]))
  IN F[3]

AppHead(a, app) ==
  IF app.kind = "num" THEN GroupOutcome(<<>>, <<>>, TRUE)
  ELSE
    LET e1 == SeqIf(~app.name, Diag("missing_name", <<a, 0, 0>>, ""))
              \o ImgErrs(a, app)
        w1 == SeqIf(~app.desc, Diag("missing_description", <<a, 0, 0>>, ""))
              \o ImgWarns(a, app)
    IN IF app.kind # "obj" THEN GroupOutcome(e1, w1, TRUE)
       ELSE IF IsFalsy(app.tabs)
       THEN GroupOutcome(e1, w1 \o <<Diag("no_tabs", <<a, 0, 0>>, "")>>, FALSE)
       ELSE IF app.tabs.t # "obj"
       THEN GroupOutcome(e1 \o <<Diag("tabs_must_be_object", <<a, 0, 0>>, "")>>, w1, FALSE)
       ELSE GroupOutcome(e1, w1, FALSE)

\* whether line 117's loop over tabs.items() runs
HasTabs(app) == app.kind = "obj" /\ ~IsFalsy(app.tabs) /\ app.tabs.t = "obj"

(***************************************************************************)
(* AppsValidator._validate_tab, lines 143-163: up to the layout loop.      *)
(***************************************************************************)
TabHead(loc, tab) ==
  IF tab.kind # "obj"
  THEN GroupOutcome(<<Diag("tab_must_be_object", loc, "")>>, <<>>, FALSE)
  ELSE
    LET w1 == SeqIf(~tab.name, Diag("missing_tab_name", loc, ""))
              \o SeqIf(~tab.id, Diag("missing_tab_id", loc, ""))
    IN IF IsFalsy(tab.layout)
       THEN GroupOutcome(<<>>, w1 \o <<Diag("empty_layout", loc, "")>>, FALSE)
       ELSE IF tab.layout.t # "list"
       THEN GroupOutcome(<<Diag("layout_must_be_array", loc, "")>>, w1, FALSE)
       ELSE GroupOutcome(<<>>, w1, FALSE)

\* whether line 168's loop over the layout runs
HasLayout(tab) == tab.kind = "obj" /\ ~IsFalsy(tab.layout) /\ tab.layout.t = "list"

(***************************************************************************)
(* validate_widgets.py: the enumerations, lines 17-82.                     *)
(***************************************************************************)
VALID_WIDGET_TYPES ==
  {"table", "chart", "chart-highcharts", "markdown", "metric", "newsfeed", "html",
   "pdf", "multi_file_viewer", "advanced_charting", "live_grid", "omni", "ssrm_table"}
VALID_PARAM_TYPES ==
  {"text", "number", "boolean", "date", "endpoint", "ticker", "tabs", "form"}
VALID_CELL_DATA_TYPES == {"text", "number", "boolean", "date", "dateString", "object"}
VALID_CHART_DATA_TYPES == {"category", "series", "time", "excluded"}
VALID_FORMATTER_FNS ==
  {"int", "none", "percent", "normalized", "normalizedPercent", "dateToYear"}
VALID_RENDER_FNS ==
  {"greenRed", "titleCase", "hoverCard", "cellOnClick", "columnColor", "showCellChange"}

\* `v and v not in VALID`: v is a string, Absent when the key is missing
BadEnumWithoutPresenceTest(v, valid) == v \notin valid

BadEnum(v, valid) == v \notin {Absent, ""} /\ v \notin valid

(***************************************************************************)
(* WidgetValidator._validate_grid_data                                     *)
(***************************************************************************)
GridMinW == 10
GridMaxW == 40
GridMinH == 4
GridMaxH == 100
GridKeys == <<"minW", "maxW", "minH", "maxH">>

ValidateGridData(wi, gd) ==
  LET loc == <<wi, 0, 0>>
      w == Get(gd.w, DefaultW)
      h == Get(gd.h, DefaultH)
      F[k \in 0..4] ==
        IF k = 0 THEN <<>>
        ELSE F[k - 1] \o SeqIf(gd.mins[k].t = "str",
                               Diag("gridData_must_be_number", loc, GridKeys[k]))
  IN GroupOutcome(
       SeqIf(~IsNum(w), Diag("gridData_must_be_number", loc, "w"))
         \o SeqIf(~IsNum(h), Diag("gridData_must_be_number", loc, "h"))
         \o F[4],
       SeqIf(IsNum(w) /\ ~(GridMinW <= w.n /\ w.n <= GridMaxW),
             Diag("gridData_out_of_range", loc, "w"))
         \o SeqIf(IsNum(h) /\ ~(GridMinH <= h.n /\ h.n <= GridMaxH),
                  Diag("gridData_out_of_range", loc, "h")),
       FALSE)

(***************************************************************************)
(* WidgetValidator._validate_params                                        *)
(***************************************************************************)
\* lines 229-237: one level of nesting is expanded in place; a top-level
\* element that is neither a list nor a dict is dropped
FlattenParams(xs) ==
  LET F[k \in 0..Len(xs)] ==
        IF k = 0 THEN <<>>
        ELSE F[k - 1] \o (IF xs[k].kind = "row" THEN xs[k].row
                          ELSE IF xs[k].kind = "obj" THEN <<xs[k]>>
                          ELSE <<>>)
  IN F[Len(xs)]

OptionErrs(loc, name, opts) ==
  LET F[k \in 0..Len(opts)] ==
        IF k = 0 THEN <<>>
        ELSE F[k - 1]
             \o SeqIf(opts[k] = "nonobj", Diag("option_must_be_object", loc, name))
             \o SeqIf(opts[k] = "novalue", Diag("option_missing_value", loc, name))
  IN F[Len(opts)]

\* lines 239-296 for one element of flat_params
ValidateParam(loc, p) ==
  IF p.kind # "obj" THEN GroupOutcome(<<>>, <<>>, FALSE)
  ELSE IF p.paramName = Absent
  THEN GroupOutcome(<<Diag("param_missing_paramName", loc, "")>>, <<>>, FALSE)
  ELSE IF p.type \in {Absent, ""}
  THEN GroupOutcome(<<Diag("param_missing_type", loc, p.paramName)>>, <<>>, FALSE)
  ELSE GroupOutcome(
         SeqIf(p.type \notin VALID_PARAM_TYPES,
               Diag("param_invalid_type", loc, p.paramName))
           \o SeqIf(p.type = "endpoint" /\ ~p.optionsEndpoint,
                    Diag("param_missing_optionsEndpoint", loc, p.paramName))
           \o (IF p.type = "text" /\ p.options.t # "absent"
               THEN IF p.options.t # "list"
                    THEN <<Diag("options_must_be_array", loc, p.paramName)>>
                    ELSE OptionErrs(loc, p.paramName, p.options.xs)
               ELSE <<>>),
         SeqIf(p.type = "date" /\ p.value = "$other",
               Diag("date_modifier_may_be_invalid", loc, p.paramName)),
         FALSE)

ValidateParams(wi, params) ==
  IF params.t # "list" THEN GroupOutcome(<<>>, <<>>, FALSE)
  ELSE
    LET flat == FlattenParams(params.xs)
        R[k \in 0..Len(flat)] ==
          IF k = 0 THEN GroupOutcome(<<>>, <<>>, FALSE)
          ELSE LET r == ValidateParam(<<wi, k, 0>>, flat[k])
               IN GroupOutcome(R[k - 1].errs \o r.errs, R[k - 1].warns \o r.warns, FALSE)
    IN R[Len(flat)]

(***************************************************************************)
(* WidgetValidator._validate_mcp_tool: `in` raises on a number             *)
(***************************************************************************)
ValidateMcpTool(wi, m) ==
  IF m.t = "other" \/ m.t = "falsy" THEN GroupOutcome(<<>>, <<>>, TRUE)
  ELSE GroupOutcome(
         SeqIf(~m.mcp_server, Diag("mcp_tool_missing_mcp_server", <<wi, 0, 0>>, ""))
           \o SeqIf(~m.tool_id, Diag("mcp_tool_missing_tool_id", <<wi, 0, 0>>, "")),
         <<>>, FALSE)

(***************************************************************************)
(* WidgetValidator._validate_widget, lines 188-198: refetchInterval is     *)
(* "absent" (or null), "false", "true", a number Num(n), or NonNum.        *)
(***************************************************************************)
RefetchMin == 1000

RefetchOutcome(wi, r) ==
  IF r.t = "absent" THEN GroupOutcome(<<>>, <<>>, FALSE)
  ELSE IF r.t = "str"
  THEN GroupOutcome(<<Diag("refetchInterval_must_be_number_or_false", <<wi, 0, 0>>, "")>>,
                    <<>>, FALSE)
  ELSE \* bool is an int for Python: False < 1000 and True < 1000
       GroupOutcome(<<>>,
                    SeqIf(r.n < RefetchMin,
                          Diag("refetchInterval_very_low", <<wi, 0, 0>>, r.t)),
                    FALSE)

(***************************************************************************)
(* WidgetValidator._validate_table_widget and _validate_sparkline          *)
(***************************************************************************)
SparklineTypes == {"line", "area", "bar"}
DefaultFieldNames == <<"column_0", "column_1", "column_2", "column_3">>
\* col.get("field", f"column_{i}")
FieldOf(col, k) == IF col.field = Absent THEN DefaultFieldNames[k] ELSE col.field

ValidateSparkline(loc, sp) ==
  IF sp.t # "obj" THEN GroupOutcome(<<>>, <<>>, TRUE)   \* no .get on null or a number
  ELSE GroupOutcome(<<>>,
         SeqIf(BadEnum(sp.type, SparklineTypes), Diag("sparkline_type", loc, sp.type))
           \o SeqIf(~sp.dataField, Diag("sparkline_missing_dataField", loc, "")),
         FALSE)

RenderFnWarns(loc, fns) ==
  LET F[k \in 0..Len(fns)] ==
        IF k = 0 THEN <<>>
        ELSE F[k - 1] \o SeqIf(fns[k] \notin VALID_RENDER_FNS,
                               Diag("unknown_renderFn", loc, fns[k]))
  IN F[Len(fns)]

\* lines 312-362 for column k, given the fields seen so far
ValidateColumn(wi, k, col, seen) ==
  LET loc == <<wi, k, 0>>
  IN IF col.kind # "obj"
     THEN GroupOutcome(<<Diag("column_must_be_object", loc, "")>>, <<>>, FALSE)
     ELSE
       LET sp == IF col.sparkline.t = "absent" THEN GroupOutcome(<<>>, <<>>, FALSE)
                 ELSE ValidateSparkline(loc, col.sparkline)
       IN GroupOutcome(
            SeqIf(col.field = Absent, Diag("column_missing_field", loc, ""))
              \o SeqIf(BadEnum(col.cellDataType, VALID_CELL_DATA_TYPES),
                       Diag("invalid_cellDataType", loc, col.cellDataType)),
            SeqIf(FieldOf(col, k) \in seen, Diag("duplicate_field", loc, FieldOf(col, k)))
              \o SeqIf(BadEnum(col.chartDataType, VALID_CHART_DATA_TYPES),
                       Diag("unknown_chartDataType", loc, col.chartDataType))
              \o SeqIf(BadEnum(col.formatterFn, VALID_FORMATTER_FNS),
                       Diag("unknown_formatterFn", loc, col.formatterFn))
              \o RenderFnWarns(loc, col.renderFn)
              \o sp.warns,
            sp.raised)

ValidateTableWidget(wi, data) ==
  IF data.t = "absent" THEN GroupOutcome(<<>>, <<>>, FALSE)
  ELSE IF data.t # "obj" THEN GroupOutcome(<<>>, <<>>, TRUE)   \* data.get
  ELSE IF IsFalsy(data.columnsDefs) THEN GroupOutcome(<<>>, <<>>, FALSE)
  ELSE IF data.columnsDefs.t # "list"
  THEN GroupOutcome(<<Diag("columnsDefs_must_be_array", <<wi, 0, 0>>, "")>>, <<>>, FALSE)
  ELSE
    LET cols == data.columnsDefs.xs
        Seen[k \in 0..Len(cols)] ==
          IF k = 0 THEN {}
          ELSE IF cols[k].kind = "obj" THEN Seen[k - 1] \cup {FieldOf(cols[k], k)}
          ELSE Seen[k - 1]
        R[k \in 0..Len(cols)] ==
          IF k = 0 THEN GroupOutcome(<<>>, <<>>, FALSE)
          ELSE IF R[k - 1].raised THEN R[k - 1]
          ELSE LET r == ValidateColumn(wi, k, cols[k], Seen[k - 1])
               IN GroupOutcome(R[k - 1].errs \o r.errs, R[k - 1].warns \o r.warns,
                               r.raised)
    IN R[Len(cols)]

(***************************************************************************)
(* WidgetValidator._validate_widget.  Then(a, b) is "a, then b unless a    *)
(* raised": the statements run in order and the first exception ends them. *)
(***************************************************************************)
Then(a, b) ==
  IF a.raised THEN a
  ELSE GroupOutcome(a.errs \o b.errs, a.warns \o b.warns, b.raised)

NoDiag == GroupOutcome(<<>>, <<>>, FALSE)
Raise == GroupOutcome(<<>>, <<>>, TRUE)

\* lines 152-156
RequiredFieldErrs(wi, w) ==
  SeqIf(~w.name, Diag("missing_required_field", <<wi, 0, 0>>, "name"))
    \o SeqIf(w.type = Absent, Diag("missing_required_field", <<wi, 0, 0>>, "type"))
    \o SeqIf(w.endpoint = Absent, Diag("missing_required_field", <<wi, 0, 0>>, "endpoint"))

ValidateWidget(wi, w) ==
  IF w.kind = "num" THEN Raise                   \* `field not in widget`
  ELSE IF w.kind # "obj"
  THEN GroupOutcome(RequiredFieldErrs(wi, w), <<>>, TRUE)   \* widget.get
  ELSE
    LET required == GroupOutcome(RequiredFieldErrs(wi, w), <<>>, FALSE)
        wtype == GroupOutcome(SeqIf(BadEnum(w.type, VALID_WIDGET_TYPES),
                                    Diag("invalid_widget_type", <<wi, 0, 0>>, w.type)),
                              <<>>, FALSE)
        grid == IF IsFalsy(w.gridData) THEN NoDiag
                ELSE IF w.gridData.t # "obj" THEN Raise    \* grid_data.get
                ELSE ValidateGridData(wi, w.gridData)
        params == IF IsFalsy(w.params) THEN NoDiag ELSE ValidateParams(wi, w.params)
        table == IF w.type = "table" THEN ValidateTableWidget(wi, w.data) ELSE NoDiag
        \* _validate_chart_widget iterates widget.get("params", [])
        chart == IF w.type = "chart" /\ w.params.t \in {"falsy", "other"}
                 THEN Raise ELSE NoDiag
        mcp == IF w.mcp_tool.t = "absent" THEN NoDiag ELSE ValidateMcpTool(wi, w.mcp_tool)
        refetch == RefetchOutcome(wi, w.refetchInterval)
    IN Then(required, Then(wtype, Then(grid, Then(params, Then(table,
         Then(chart, Then(mcp, refetch)))))))

(***************************************************************************)
(* AppsValidator.validate as a state machine.                              *)
(***************************************************************************)
Top == <<0, 0, 0>>
inputs == <<tool, widgetsDoc, appsDoc>>
probe == <<rectA, rectB, overlaps>>
history == <<run, firstErrors, firstWarnings>>
http == <<results, requests>>
stream == <<active_connections, tasks, sockets, received, published>>

\* line 87 (and WidgetValidator line 146): return len(self.errors) == 0
PassedNoDiagnostics(errs, warns) == IF Len(errs) = 0 /\ Len(warns) = 0 THEN "pass" ELSE "fail"

Passed(errs, warns) == IF Len(errs) = 0 THEN "pass" ELSE "fail"

\* line 166: positions = []
KeptPositions == positions

FreshPositions == <<>>

\* lines 38-40
AppsCheckExistsMissingIsError ==
  /\ tool = "apps" /\ pc = "start"
  /\ IF appsDoc.t = "absent"
     THEN /\ errors' = Append(errors, Diag("apps_json_not_found", Top, ""))
          /\ result' = "fail"
          /\ pc' = "returned"
     ELSE /\ pc' = "load_widgets"
          /\ UNCHANGED <<errors, result>>
  /\ UNCHANGED <<inputs, probe, history, runner, stream, http, warnings, widget_ids, endpoint_names,
                 layouts_validated, positions, ai, ti, ki>>

AppsCheckExists ==
  /\ tool = "apps" /\ pc = "start"
  /\ IF appsDoc.t = "absent"
     THEN /\ warnings' = Append(warnings, Diag("apps_json_not_found", Top, ""))
          /\ result' = "pass"
          /\ pc' = "returned"
     ELSE /\ pc' = "load_widgets"
          /\ UNCHANGED <<warnings, result>>
  /\ UNCHANGED <<inputs, probe, history, runner, stream, http, errors, widget_ids, endpoint_names, layouts_validated,
                 positions, ai, ti, ki>>

\* w.get("widgetId", w.get("endpoint", ""))
ListWidgetId(w) ==
  IF w.widgetId # Absent THEN w.widgetId
  ELSE IF w.endpoint # Absent THEN w.endpoint ELSE ""

\* lines 47-53: the ids the reference checks use
KnownWidgetIds(doc) ==
  IF doc.t = "list" THEN {ListWidgetId(doc.xs[k]) : k \in 1..Len(doc.xs)}
  ELSE IF doc.t = "obj" THEN {doc.xs[k].key : k \in 1..Len(doc.xs)}
  ELSE {}

\* lines 43-57; only json.JSONDecodeError is caught, so w.get on a list
\* element that is not a dict leaves validate() as AttributeError
AppsLoadWidgets ==
  /\ tool = "apps" /\ pc = "load_widgets"
  /\ IF widgetsDoc.t = "list" /\ \E k \in 1..Len(widgetsDoc.xs) : widgetsDoc.xs[k].kind # "obj"
     THEN pc' = "raised" /\ UNCHANGED <<warnings, widget_ids>>
     ELSE /\ pc' = "load_apps"
          /\ widget_ids' = KnownWidgetIds(widgetsDoc)
          /\ warnings' = warnings \o SeqIf(widgetsDoc.t = "malformed",
                                           Diag("cannot_parse_widgets_json", Top, ""))
  /\ UNCHANGED <<inputs, probe, history, runner, stream, http, errors, endpoint_names, layouts_validated, positions,
                 ai, ti, ki, result>>

\* lines 60-85
AppsLoadApps ==
  /\ tool = "apps" /\ pc = "load_apps"
  /\ IF appsDoc.t = "list"
     THEN /\ warnings' = warnings \o SeqIf(Len(appsDoc.xs) = 0,
                                           Diag("apps_json_empty_array", Top, ""))
          /\ pc' = "app" /\ ai' = 1
          /\ UNCHANGED <<errors, result>>
     ELSE /\ errors' = Append(errors,
                 Diag(IF appsDoc.t = "malformed" THEN "invalid_json_in_apps_json"
                      ELSE IF appsDoc.t = "obj" THEN "apps_json_must_be_array_not_object"
                      ELSE "apps_json_must_be_array", Top, ""))
          /\ result' = "fail"
          /\ pc' = "returned"
          /\ UNCHANGED <<warnings, ai>>
  /\ UNCHANGED <<inputs, probe, history, runner, stream, http, widget_ids, endpoint_names, layouts_validated, positions, ti, ki>>

CurApp == appsDoc.xs[ai]
CurTab == CurApp.tabs.xs[ti]
CurItem == CurTab.layout.xs[ki]

\* line 73 into _validate_app, lines 92-118 up to the first tab
AppsValidateApp ==
  /\ tool = "apps" /\ pc = "app" /\ ai <= Len(appsDoc.xs)
  /\ LET r == AppHead(ai, CurApp)
     IN /\ errors' = errors \o r.errs
        /\ warnings' = warnings \o r.warns
        /\ IF r.raised THEN pc' = "raised" /\ ti' = ti
           ELSE IF HasTabs(CurApp) THEN pc' = "tab" /\ ti' = 1
           ELSE pc' = "app_tail" /\ ti' = ti
  /\ UNCHANGED <<inputs, probe, history, runner, stream, http, widget_ids, endpoint_names, layouts_validated, positions,
                 ai, ki, result>>

\* _validate_tab, lines 143-166: one tab, up to its first layout item
AppsValidateTab ==
  /\ tool = "apps" /\ pc = "tab"
  /\ LET r == TabHead(<<ai, ti, 0>>, CurTab)
     IN /\ errors' = errors \o r.errs
        /\ warnings' = warnings \o r.warns
        /\ IF HasLayout(CurTab)
           THEN /\ positions' = FreshPositions
                /\ ki' = 1 /\ pc' = "item" /\ ti' = ti
           ELSE /\ IF ti < Len(CurApp.tabs.xs)
                   THEN ti' = ti + 1 /\ pc' = "tab"
                   ELSE ti' = ti /\ pc' = "app_tail"
                /\ UNCHANGED <<positions, ki>>
  /\ UNCHANGED <<inputs, probe, history, runner, stream, http, widget_ids, endpoint_names, layouts_validated, ai, result>>

\* lines 168-169: one call of _validate_layout_item
AppsValidateLayoutItem ==
  /\ tool = "apps" /\ pc = "item"
  /\ LET r == ValidateLayoutItem(<<ai, ti, ki>>, CurItem, widget_ids, positions)
     IN /\ errors' = errors \o r.errs
        /\ warnings' = warnings \o r.warns
        /\ positions' = r.pos
        /\ IF r.raised THEN pc' = "raised" /\ ki' = ki
           ELSE IF ki < Len(CurTab.layout.xs) THEN pc' = "item" /\ ki' = ki + 1
           ELSE pc' = "tab_end" /\ ki' = ki
  /\ UNCHANGED <<inputs, probe, history, runner, stream, http, widget_ids, endpoint_names, layouts_validated, ai, ti, result>>

\* line 171, then the next tab of line 117's loop
AppsTabEnd ==
  /\ tool = "apps" /\ pc = "tab_end"
  /\ layouts_validated' = layouts_validated + 1
  /\ IF ti < Len(CurApp.tabs.xs)
     THEN ti' = ti + 1 /\ pc' = "tab"
     ELSE ti' = ti /\ pc' = "app_tail"
  /\ UNCHANGED <<inputs, probe, history, runner, stream, http, errors, warnings, widget_ids, endpoint_names, positions,
                 ai, ki, result>>

\* lines 120-139, then the next app of line 72's loop
AppsAppTail ==
  /\ tool = "apps" /\ pc = "app_tail"
  /\ LET g == GroupsPart(ai, CurApp, widget_ids)
     IN /\ errors' = errors \o g.errs \o (IF g.raised THEN <<>> ELSE PromptsPart(ai, CurApp))
        /\ warnings' = warnings \o g.warns
        /\ IF g.raised THEN pc' = "raised" /\ ai' = ai
           ELSE pc' = "app" /\ ai' = ai + 1
  /\ UNCHANGED <<inputs, probe, history, runner, stream, http, widget_ids, endpoint_names, layouts_validated, positions,
                 ti, ki, result>>

\* line 87
AppsReturn ==
  /\ tool = "apps" /\ pc = "app" /\ ai > Len(appsDoc.xs)
  /\ result' = Passed(errors, warnings)
  /\ pc' = "returned"
  /\ UNCHANGED <<inputs, probe, history, runner, stream, http, errors, warnings, widget_ids, endpoint_names,
                 layouts_validated, positions, ai, ti, ki>>

(***************************************************************************)
(* WidgetValidator.validate as a state machine.                            *)
(***************************************************************************)
\* lines 104-134: what the top-level checks append, and whether the two
\* loops over the widgets run ("go") or validate returns at once
TopOutcome(e, w, go, res) == [errs |-> e, warns |-> w, go |-> go, result |-> res]

WidgetsTopLevelArrayAccepted(doc) ==
  IF doc.t \in {"obj", "list"}
  THEN IF Len(doc.xs) = 0
       THEN TopOutcome(<<>>, <<Diag("widgets_json_empty", Top, "")>>, FALSE, "pass")
       ELSE TopOutcome(<<>>, <<>>, TRUE, "none")
  ELSE TopOutcome(<<Diag("widgets_json_rejected", Top, "")>>, <<>>, FALSE, "fail")

WidgetsTopLevel(doc) ==
  IF doc.t = "absent"
  THEN TopOutcome(<<Diag("widgets_json_not_found", Top, "")>>, <<>>, FALSE, "fail")
  ELSE IF doc.t = "malformed"
  THEN TopOutcome(<<Diag("invalid_json", Top, "")>>, <<>>, FALSE, "fail")
  ELSE IF doc.t = "list"
  THEN TopOutcome(<<Diag("widgets_json_must_be_object_not_array", Top, "")>>, <<>>,
                  FALSE, "fail")
  ELSE IF doc.t # "obj"
  THEN TopOutcome(<<Diag("widgets_json_must_be_dict", Top, "")>>, <<>>, FALSE, "fail")
  ELSE IF Len(doc.xs) = 0
  THEN TopOutcome(<<>>, <<Diag("widgets_json_empty", Top, "")>>, FALSE, "pass")
  ELSE TopOutcome(<<>>, <<>>, TRUE, "none")

WidgetsLoad ==
  /\ tool = "widgets" /\ pc = "start"
  /\ LET r == WidgetsTopLevel(widgetsDoc)
     IN /\ errors' = errors \o r.errs
        /\ warnings' = warnings \o r.warns
        /\ result' = r.result
        /\ IF r.go THEN pc' = "collect" /\ ki' = 1
           ELSE pc' = "returned" /\ ki' = ki
  /\ UNCHANGED <<inputs, probe, history, runner, stream, http, widget_ids, endpoint_names, layouts_validated, positions, ai, ti>>

CurWidget == widgetsDoc.xs[ki]

\* lines 137-140, one widget: `"endpoint" in widget` raises on a number
WidgetsCollect ==
  /\ tool = "widgets" /\ pc = "collect"
  /\ widget_ids' = widget_ids \cup {CurWidget.key}
  /\ IF CurWidget.kind = "num"
     THEN pc' = "raised" /\ UNCHANGED <<endpoint_names, ki>>
     ELSE /\ endpoint_names' = endpoint_names \cup
               (IF CurWidget.endpoint # Absent THEN {CurWidget.endpoint} ELSE {})
          /\ IF ki < Len(widgetsDoc.xs) THEN pc' = "collect" /\ ki' = ki + 1
             ELSE pc' = "validate" /\ ki' = 1
  /\ UNCHANGED <<inputs, probe, history, runner, stream, http, errors, warnings, layouts_validated, positions, ai, ti, result>>

\* lines 143-144, one call of _validate_widget
WidgetsValidateWidget ==
  /\ tool = "widgets" /\ pc = "validate"
  /\ LET r == ValidateWidget(ki, CurWidget)
     IN /\ errors' = errors \o r.errs
        /\ warnings' = warnings \o r.warns
        /\ IF r.raised THEN pc' = "raised" /\ ki' = ki
           ELSE IF ki < Len(widgetsDoc.xs) THEN pc' = "validate" /\ ki' = ki + 1
           ELSE pc' = "finish" /\ ki' = ki
  /\ UNCHANGED <<inputs, probe, history, runner, stream, http, widget_ids, endpoint_names, layouts_validated, positions,
                 ai, ti, result>>

\* line 146
WidgetsReturn ==
  /\ tool = "widgets" /\ pc = "finish"
  /\ result' = Passed(errors, warnings)
  /\ pc' = "returned"
  /\ UNCHANGED <<inputs, probe, history, runner, stream, http, errors, warnings, widget_ids, endpoint_names,
                 layouts_validated, positions, ai, ti, ki>>

(***************************************************************************)
(* The documents.  Constructors for the JSON values the validators read.   *)
(***************************************************************************)
NoState == [t |-> "absent", params |-> "absent", chartView |-> "absent",
            columnState |-> "absent"]
NoItemGroups == [t |-> "absent", gs |-> <<>>]

Item(i, x, y, w, h) ==
  [kind |-> "obj", i |-> i, x |-> x, y |-> y, w |-> w, h |-> h,
   state |-> NoState, groups |-> NoItemGroups]
NonObjectItem == [Item(IdNone, NoKey, NoKey, NoKey, NoKey) EXCEPT !.kind = "nonobj"]

Tab(layout) == [kind |-> "obj", name |-> TRUE, id |-> TRUE, layout |-> layout]
NonObjectTab == [Tab(JAbsent) EXCEPT !.kind = "nonobj"]

NoImgs == <<"absent", "absent", "absent">>
App(tabs) ==
  [kind |-> "obj", name |-> TRUE, desc |-> TRUE, imgs |-> NoImgs, tabs |-> tabs,
   groups |-> JAbsent, prompts |-> JAbsent]
\* an app entry that is a number, and one that is a string holding no key name
NumberApp == [App(JAbsent) EXCEPT !.kind = "num", !.name = FALSE, !.desc = FALSE]
StringApp == [App(JAbsent) EXCEPT !.kind = "str", !.name = FALSE, !.desc = FALSE]

Group(type, ids) ==
  [kind |-> "obj", name |-> TRUE, type |-> type, paramName |-> TRUE, widgetIds |-> ids]
NonObjectGroup == [Group(Absent, JAbsent) EXCEPT !.kind = "nonobj"]

NoGrid == [t |-> "absent", xs |-> <<>>, w |-> NoKey, h |-> NoKey,
           mins |-> <<NoKey, NoKey, NoKey, NoKey>>]
NoMcp == [t |-> "absent", mcp_server |-> FALSE, tool_id |-> FALSE]
NoData == [t |-> "absent", columnsDefs |-> JAbsent]
JFalse == [t |-> "false", n |-> 0]
JTrue == [t |-> "true", n |-> 1]

Widget(name, type, endpoint) ==
  [key |-> "", kind |-> "obj", widgetId |-> Absent, name |-> name, type |-> type,
   endpoint |-> endpoint, gridData |-> NoGrid, params |-> JAbsent, data |-> NoData,
   mcp_tool |-> NoMcp, refetchInterval |-> NoKey]
\* a widget value that is a number, and one that is a string holding no key name
NumberWidget == [Widget(FALSE, Absent, Absent) EXCEPT !.kind = "num"]
StringWidget == [Widget(FALSE, Absent, Absent) EXCEPT !.kind = "str"]

\* one element of `params`: a parameter object, a nested row of elements, or
\* a value that is neither ("other": a string, a number, null)
NoOptions == [t |-> "absent", xs |-> <<>>]
Param(name, type) ==
  [kind |-> "obj", row |-> <<>>, paramName |-> name, type |-> type,
   optionsEndpoint |-> FALSE, options |-> NoOptions, value |-> ""]
ParamRow(ps) == [Param(Absent, Absent) EXCEPT !.kind = "row", !.row = ps]
NonObjectParam == [Param(Absent, Absent) EXCEPT !.kind = "other"]

\* one element of data.columnsDefs
NoSparkline == [t |-> "absent", type |-> Absent, dataField |-> FALSE]
Column(field, cellDataType) ==
  [kind |-> "obj", field |-> field, cellDataType |-> cellDataType,
   chartDataType |-> Absent, formatterFn |-> Absent, renderFn |-> <<>>,
   sparkline |-> NoSparkline]
NonObjectColumn == [Column(Absent, Absent) EXCEPT !.kind = "other"]
TableData(cols) == [t |-> "obj", columnsDefs |-> cols]

\* the keys of a widgets.json object, in insertion order
WidgetKeys == <<"w1", "w2", "w3", "w4">>
Keyed(ws) == [k \in 1..Len(ws) |-> [ws[k] EXCEPT !.key = WidgetKeys[k]]]

SeqsUpTo(S, n) == UNION {[1..k -> S] : k \in 0..n}

RECURSIVE SumSeq(_)
SumSeq(q) == IF Len(q) = 0 THEN 0 ELSE q[1] + SumSeq(Tail(q))

(***************************************************************************)
(* The document families Init draws from.                                  *)
(*  - layout documents: up to MaxApps apps holding up to MaxTabs tabs and  *)
(*    MaxItems layout items in all, the items drawn from GeoItems;         *)
(*  - item documents: one app, one tab, one layout item drawn from the     *)
(*    product of the field values below;                                   *)
(*  - app documents: one app drawn from the product of the app-level       *)
(*    field values, and the top-level values that are not a list of apps.  *)
(***************************************************************************)
W1 == IdStr("w1")
W2 == IdStr("w2")

GeoItems ==
  { Item(W1, NoKey, NoKey, NoKey, NoKey),            \* (0, 0, 12, 8) by default
    Item(W2, Num(10), Num(4), Num(10), Num(8)),      \* overlaps the first
    Item(W1, Num(12), Num(0), Num(28), Num(8)) }     \* touches the first, ends at 40

Shapes == {sh \in SeqsUpTo(0..MaxTabs, MaxApps) : SumSeq(sh) <= MaxTabs}
Lens(n) == {ln \in [1..n -> 0..MaxItems] : SumSeq(ln) <= MaxItems}

BuildApps(sh, ln, flat) ==
  LET Before(q, j) == SumSeq(SubSeq(q, 1, j - 1))
      Layout(j) == JList([k \in 1..ln[j] |-> flat[Before(ln, j) + k]])
      AppAt(a) == App(JObj([t \in 1..sh[a] |-> Tab(Layout(Before(sh, a) + t))]))
  IN JList([a \in 1..Len(sh) |-> AppAt(a)])

GoodWidget == Widget(TRUE, "markdown", "ep1")
WAbsent == [t |-> "absent", xs |-> <<>>]
WMalformed == [t |-> "malformed", xs |-> <<>>]
WDictW1 == JObj(Keyed(<<GoodWidget>>))

\* widgets.json as AppsValidator may find it
AppsWidgetDocs ==
  { WAbsent, WMalformed, JOther, JObj(<<>>), WDictW1,
    JList(<<[GoodWidget EXCEPT !.widgetId = "w1"]>>),
    JList(<<[GoodWidget EXCEPT !.endpoint = "w1"]>>),
    JList(<<NumberWidget>>) }

IdVals == {IdNone, W1, W2, IdList}
XVals == {NoKey, Num(-1), Num(0), Num(30), Num(31), Num(35), NonNum}
YVals == {NoKey, Num(-1), NonNum}
WVals == {NoKey, Num(0), Num(10), NonNum}
HVals == {NoKey, Num(0), NonNum}

StateVals ==
  { NoState, [NoState EXCEPT !.t = "nonobj"],
    [NoState EXCEPT !.t = "obj"],
    [NoState EXCEPT !.t = "obj", !.params = "nonobj", !.chartView = "obj"],
    [NoState EXCEPT !.t = "obj", !.chartView = "nonobj", !.columnState = "nonobj"] }
ItemGroupVals ==
  { NoItemGroups, [t |-> "other", gs |-> <<>>], [t |-> "list", gs |-> <<TRUE>>],
    [t |-> "list", gs |-> <<FALSE, TRUE, FALSE>>] }

WideItems ==
  {Item(i, x, y, w, h) : i \in IdVals, x \in XVals, y \in YVals, w \in WVals, h \in HVals}
    \cup {NonObjectItem}
    \cup {[Item(W1, x, y, NoKey, NoKey) EXCEPT !.state = st, !.groups = g] :
            x \in {NoKey, Num(-1), Num(35)}, y \in {NoKey, NonNum},
            st \in StateVals, g \in ItemGroupVals}

\* objects without a usable `i`, one of them otherwise out of range, with a
\* state and groups of the wrong type
IdlessItems ==
  { Item(IdNone, NoKey, NoKey, NoKey, NoKey), Item(IdStr(""), NoKey, NoKey, NoKey, NoKey),
    [Item(IdNone, Num(-1), NonNum, Num(50), Num(0)) EXCEPT
       !.state = [NoState EXCEPT !.t = "nonobj"],
       !.groups = [t |-> "other", gs |-> <<>>]] }

OneItemDoc(it) == JList(<<App(JObj(<<Tab(JList(<<it>>))>>))>>)

LayoutVals == {JAbsent, JFalsy, JOther, JList(<<>>), JObj(<<>>), JObj(<<NonObjectItem>>),
               JList(<<NonObjectItem>>)}
TabVals ==
  {NonObjectTab}
    \cup {[Tab(l) EXCEPT !.name = n, !.id = n] : l \in LayoutVals, n \in BOOLEAN}
TabsVals ==
  {JAbsent, JFalsy, JOther, JObj(<<>>), JList(<<>>), JList(<<NonObjectTab>>)}
    \cup {JObj(<<t>>) : t \in TabVals}
GroupVals ==
  {NonObjectGroup, [Group("param", JList(<<W1>>)) EXCEPT !.name = FALSE, !.paramName = FALSE]}
    \cup {Group(ty, ids) :
            ty \in {Absent, "endpointParam", "custom"},
            ids \in {JAbsent, JOther, JList(<<>>), JList(<<W1, W2>>), JList(<<W2, IdList, W2>>),
                     JList(<<W2, W1, W2>>)}}
GroupsVals ==
  {JAbsent, JFalsy, JOther, JList(<<>>)} \cup {JList(<<g>>) : g \in GroupVals}
    \cup {JList(<<NonObjectGroup, Group("param", JList(<<W2>>))>>)}
PromptsVals == {JAbsent, JOther, JList(<<TRUE>>), JList(<<FALSE, TRUE, FALSE>>)}
ImgVals == {NoImgs, <<"absolute", "relative", "nonstr">>}

WideApps ==
  {NumberApp, StringApp}
    \cup {[App(tabs) EXCEPT !.name = n, !.desc = n, !.imgs = im] :
            tabs \in TabsVals, n \in BOOLEAN, im \in ImgVals}
    \cup {[App(tabs) EXCEPT !.groups = gs, !.prompts = ps] :
            tabs \in {JAbsent, JObj(<<Tab(JList(<<Item(W2, NoKey, NoKey, NoKey, NoKey)>>))>>)},
            gs \in GroupsVals, ps \in PromptsVals}

AppDocs ==
  {JAbsent, [t |-> "malformed", xs |-> <<>>], JFalsy, JOther, JObj(<<>>), JList(<<>>)}
    \cup {JList(<<a>>) : a \in WideApps}
    \cup {JList(<<a, App(JObj(<<Tab(JList(<<Item(W2, Num(35), NoKey, NoKey, NoKey)>>))>>))>>) :
            a \in {NumberApp, StringApp, App(JAbsent)}}
    \cup {JList(<<App(JObj(<<Tab(JList(<<it, Item(W1, NoKey, NoKey, NoKey, NoKey)>>))>>))>>) :
            it \in IdlessItems}

(***************************************************************************)
(* widgets.json as WidgetValidator may find it: up to MaxWidgets widgets   *)
(* drawn from NarrowWidgets, as an object or as an array, and one widget   *)
(* drawn from the product of the widget-level field values.                *)
(***************************************************************************)
McpVals ==
  { NoMcp, [NoMcp EXCEPT !.t = "other"], [NoMcp EXCEPT !.t = "str"],
    [t |-> "obj", mcp_server |-> TRUE, tool_id |-> TRUE],
    [t |-> "obj", mcp_server |-> FALSE, tool_id |-> TRUE] }
RefetchVals == {NoKey, NonNum, JFalse, JTrue, Num(500), Num(1000)}
GridObj(w, h, mins) == [t |-> "obj", xs |-> <<"keys">>, w |-> w, h |-> h, mins |-> mins]
GridVals ==
  { NoGrid, [NoGrid EXCEPT !.t = "other"],
    GridObj(Num(20), Num(10), <<NoKey, NoKey, NoKey, NoKey>>),
    GridObj(Num(5), NonNum, <<Num(1), NonNum, NoKey, NoKey>>) }

NarrowWidgets ==
  { GoodWidget, Widget(FALSE, "bogus", Absent), NumberWidget, StringWidget,
    [GoodWidget EXCEPT !.refetchInterval = Num(500)] }

WideWidgets ==
  {[Widget(n, ty, ep) EXCEPT !.mcp_tool = m, !.refetchInterval = r, !.gridData = g] :
     n \in BOOLEAN, ty \in {Absent, "", "chart", "bogus"}, ep \in {Absent, "ep1"},
     m \in McpVals, r \in RefetchVals, g \in GridVals}

OptionsVals ==
  { NoOptions, [t |-> "other", xs |-> <<>>], [t |-> "list", xs |-> <<"ok">>],
    [t |-> "list", xs |-> <<"nonobj", "novalue", "ok">>] }
WideParams ==
  {[Param(n, ty) EXCEPT !.optionsEndpoint = oe, !.options = op, !.value = v] :
     n \in {Absent, "p"}, ty \in {Absent, "", "text", "endpoint", "date", "bogus"},
     oe \in BOOLEAN, op \in OptionsVals, v \in {"", "$currentDate", "$other"}}
ParamsVals ==
  {JFalsy, JOther, JList(<<>>)}
    \cup {JList(<<p>>) : p \in WideParams}
    \cup { JList(<<ParamRow(<<Param("a", "text"), Param("b", "bogus")>>), Param("c", "number")>>),
           JList(<<NonObjectParam, ParamRow(<<NonObjectParam, Param(Absent, "text")>>)>>),
           JList(<<ParamRow(<<ParamRow(<<Param(Absent, Absent)>>)>>), Param("d", "ticker")>>) }

SparklineVals ==
  { NoSparkline, [NoSparkline EXCEPT !.t = "other"],
    [t |-> "obj", type |-> "line", dataField |-> TRUE],
    [t |-> "obj", type |-> "bogus", dataField |-> FALSE] }
WideColumns ==
  {[Column(f, cdt) EXCEPT !.chartDataType = ch, !.formatterFn = fm, !.renderFn = rf,
                          !.sparkline = sp] :
     f \in {Absent, "f"}, cdt \in {Absent, "", "text", "bogus"},
     ch \in {Absent, "series", "bogus"}, fm \in {Absent, "int", "bogus"},
     rf \in {<<>>, <<"greenRed">>, <<"bogus", "titleCase">>}, sp \in SparklineVals}
DataVals ==
  {NoData, [NoData EXCEPT !.t = "other"], TableData(JAbsent), TableData(JOther),
   TableData(JList(<<>>))}
    \cup {TableData(JList(<<c>>)) : c \in WideColumns}
    \cup { TableData(JList(<<Column("f", "text"), NonObjectColumn, Column("f", "number")>>)),
           TableData(JList(<<Column("column_1", "date"), Column(Absent, "object")>>)) }

\* one widget with every required field, its params or its table data varied
DetailWidgets ==
  {[Widget(TRUE, ty, "ep1") EXCEPT !.params = ps] :
     ty \in {"table", "chart"}, ps \in ParamsVals}
    \cup {[Widget(TRUE, ty, "ep1") EXCEPT !.data = d] :
            ty \in {"table", "metric"}, d \in DataVals}

WidgetsInputs ==
  {WAbsent, WMalformed, JOther, JFalsy}
    \cup {JObj(Keyed(ws)) : ws \in SeqsUpTo(NarrowWidgets, MaxWidgets)}
    \cup {JList(ws) : ws \in SeqsUpTo(NarrowWidgets, MaxWidgets)}
    \cup {JObj(Keyed(<<w>>)) : w \in WideWidgets}
    \cup {JObj(Keyed(<<w>>)) : w \in DetailWidgets}

(***************************************************************************)
(* One run: __init__ (lines 21-26 and 88-93), then validate().             *)
(***************************************************************************)
NoRect == <<0, 0, 0, 0>>

\* validate_app.py is not running
NoRunner ==
  [stage |-> "off", widgetsScript |-> TRUE, appsScript |-> TRUE,
   widgets_ok |-> FALSE, apps_ok |-> FALSE, all_passed |-> TRUE, exit |-> -1]

(***************************************************************************)
(* widget-types/html_widget/main.py: the module state.  A stream key is    *)
(* f"{exchange}_{symbol}_{interval}"; a WebSocket object is numbered by    *)
(* its arrival.  An entry of active_connections records whether the key is *)
(* in the dict, which set object it maps to (the n-th created for the key) *)
(* and the members of that set.                                            *)
(***************************************************************************)
StreamKeys == {"BinanceUS_BTCUSDT_1h", "BinanceUS_ETHUSDT_1h"}
Clients == 1..MaxClients
NoEntry == [in |-> FALSE, obj |-> 0, conns |-> {}]
Entry(obj, conns) == [in |-> TRUE, obj |-> obj, conns |-> conns]
NoSocket == [pc |-> "none", key |-> "", open |-> FALSE]

\* lines 30-31 at import, no client yet
StreamIdle ==
  /\ active_connections = [s \in StreamKeys |-> NoEntry]
  /\ tasks = <<>>
  /\ sockets = [c \in Clients |-> NoSocket]
  /\ received = [c \in Clients |-> <<>>]
  /\ published = [s \in StreamKeys |-> 0]

Constructed ==
  /\ pc = "start"
  /\ StreamIdle
  /\ rectA = NoRect /\ rectB = NoRect /\ overlaps = FALSE
  /\ run = 1 /\ firstErrors = <<>> /\ firstWarnings = <<>>
  /\ results = <<>> /\ requests = <<>>
  /\ errors = <<>>
  /\ warnings = <<>>
  /\ widget_ids = {}
  /\ endpoint_names = {}
  /\ layouts_validated = 0
  /\ positions = <<>>
  /\ ai = 0 /\ ti = 0 /\ ki = 0
  /\ result = "none"

InitApps ==
  /\ tool = "apps"
  /\ \/ \E sh \in Shapes : \E ln \in Lens(SumSeq(sh)) :
          \E flat \in [1..SumSeq(ln) -> GeoItems] :
            /\ appsDoc = BuildApps(sh, ln, flat)
            /\ widgetsDoc \in {WAbsent, WDictW1}
     \/ \E it \in WideItems :
          /\ appsDoc = OneItemDoc(it)
          /\ widgetsDoc \in AppsWidgetDocs
     \/ /\ appsDoc \in AppDocs
        /\ widgetsDoc \in {WAbsent, WDictW1, JList(<<NumberWidget>>)}
  /\ Constructed

InitWidgets ==
  /\ tool = "widgets"
  /\ widgetsDoc \in WidgetsInputs
  /\ appsDoc = JAbsent
  /\ Constructed

Init == (InitApps \/ InitWidgets) /\ runner = NoRunner

Next ==
  \/ AppsCheckExists
  \/ AppsLoadWidgets
  \/ AppsLoadApps
  \/ AppsValidateApp
  \/ AppsValidateTab
  \/ AppsValidateLayoutItem
  \/ AppsTabEnd
  \/ AppsAppTail
  \/ AppsReturn
  \/ WidgetsLoad
  \/ WidgetsCollect
  \/ WidgetsValidateWidget
  \/ WidgetsReturn

Spec == Init /\ [][Next]_vars

(***************************************************************************)
(* One call of _rectangles_overlap on two rectangles (x, y, w, h) with     *)
(* integer fields, as its signature declares them.                         *)
(***************************************************************************)
Rects == (0..MaxCoord) \X (0..MaxCoord) \X (-1..MaxSide) \X (-1..MaxSide)

InitOverlap ==
  /\ tool = "overlap"
  /\ widgetsDoc = WAbsent /\ appsDoc = JAbsent
  /\ pc = "start" /\ errors = <<>> /\ warnings = <<>> /\ widget_ids = {}
  /\ endpoint_names = {} /\ layouts_validated = 0 /\ positions = <<>>
  /\ ai = 0 /\ ti = 0 /\ ki = 0 /\ result = "none"
  /\ rectA \in Rects /\ rectB \in Rects /\ overlaps = FALSE
  /\ run = 1 /\ firstErrors = <<>> /\ firstWarnings = <<>>
  /\ runner = NoRunner
  /\ results = <<>> /\ requests = <<>>
  /\ StreamIdle

CallRectanglesOverlap ==
  /\ tool = "overlap" /\ pc = "start"
  /\ overlaps' = RectanglesOverlap(rectA[1], rectA[2], rectA[3], rectA[4],
                                   rectB[1], rectB[2], rectB[3], rectB[4])
  /\ pc' = "returned"
  /\ UNCHANGED <<inputs, history, runner, stream, http, rectA, rectB, errors, warnings, widget_ids, endpoint_names,
                 layouts_validated, positions, ai, ti, ki, result>>

NextOverlap == CallRectanglesOverlap

SpecOverlap == InitOverlap /\ [][NextOverlap]_vars

(***************************************************************************)
(* validate() called a second time on the same validator object.  The      *)
(* lists, the id sets and the counter are attributes set in __init__ only; *)
(* validate() does not reset them.  Its locals start afresh.               *)
(***************************************************************************)
ValidateAgain ==
  /\ pc = "returned" /\ run = 1 /\ tool \in {"apps", "widgets"}
  /\ run' = 2
  /\ firstErrors' = errors /\ firstWarnings' = warnings
  /\ pc' = "start" /\ result' = "none"
  /\ ai' = 0 /\ ti' = 0 /\ ki' = 0 /\ positions' = <<>>
  /\ UNCHANGED <<inputs, probe, runner, stream, http, errors, warnings, widget_ids, endpoint_names,
                 layouts_validated>>

NextRevalidate == Next \/ ValidateAgain

SpecRevalidate == Init /\ [][NextRevalidate]_vars

(***************************************************************************)
(* validate_app.py: main() runs validate_widgets.py and then               *)
(* validate_apps.py, each as a child process through run_validator, and    *)
(* exits.  A child is the validator's own main(): construct, validate(),   *)
(* report(), exit 0 if validate() returned True and 1 otherwise; a child   *)
(* whose validate() raises prints a traceback and exits 1 without a        *)
(* report.  tool = "idle" stands for a script file that does not exist:    *)
(* run_validator returns (False, "Script not found: ...") without a child. *)
(***************************************************************************)
\* run_validator's `success`: result.returncode == 0
ChildSucceeded == tool # "idle" /\ pc = "returned" /\ result = "pass"
\* whether the child's output holds report()'s errors heading
ChildPrintsErrors == tool # "idle" /\ pc = "returned" /\ Len(errors) > 0
ChildEnded == tool = "idle" \/ pc \in {"returned", "raised"}

\* the next child starts from a new process
StartChild(script, exists) ==
  /\ tool' = IF exists THEN script ELSE "idle"
  /\ pc' = "start" /\ result' = "none"
  /\ errors' = <<>> /\ warnings' = <<>>
  /\ widget_ids' = {} /\ endpoint_names' = {} /\ layouts_validated' = 0
  /\ positions' = <<>> /\ ai' = 0 /\ ti' = 0 /\ ki' = 0

\* lines 63-66, then line 70 starts validate_apps.py
RunnerWidgetsDone ==
  /\ runner.stage = "widgets" /\ ChildEnded
  /\ runner' = [runner EXCEPT !.stage = "apps",
                              !.widgets_ok = ChildSucceeded,
                              !.all_passed = ChildSucceeded]
  /\ StartChild("apps", runner.appsScript)
  /\ UNCHANGED <<widgetsDoc, appsDoc, probe, history, http, stream>>

\* lines 70-93
RunnerAppsDone ==
  /\ runner.stage = "apps" /\ ChildEnded
  /\ runner' = [runner EXCEPT !.stage = "exited",
                              !.apps_ok = ChildSucceeded,
                              !.all_passed = runner.all_passed /\ ~ChildPrintsErrors,
                              !.exit = IF runner.all_passed /\ ~ChildPrintsErrors
                                       THEN 0 ELSE 1]
  /\ UNCHANGED <<inputs, probe, history, http, stream, pc, result, errors, warnings, widget_ids,
                 endpoint_names, layouts_validated, positions, ai, ti, ki>>

RunnerWidgetDocs ==
  { WAbsent, JObj(<<>>), WDictW1, JList(<<GoodWidget>>), JObj(Keyed(<<NumberWidget>>)),
    JObj(Keyed(<<Widget(FALSE, "bogus", Absent)>>)) }

InitRunner ==
  /\ widgetsDoc \in RunnerWidgetDocs
  /\ appsDoc \in AppDocs
  /\ Constructed
  /\ \E ws \in BOOLEAN, as \in BOOLEAN :
       /\ runner = [NoRunner EXCEPT !.stage = "widgets", !.widgetsScript = ws,
                                    !.appsScript = as]
       /\ tool = IF ws THEN "widgets" ELSE "idle"

NextRunner == Next \/ RunnerWidgetsDone \/ RunnerAppsDone

SpecRunner == InitRunner /\ [][NextRunner]_vars

(***************************************************************************)
(* validate_endpoints.py: EndpointValidator.  The server is the            *)
(* environment: every HTTP call draws its reply from a small set, and the  *)
(* call with its reply is recorded in `requests`.                          *)
(***************************************************************************)
\* a reply: an HTTP status with its body, or the exception the call raised
\* ("connection_error", "timeout", "other_exception")
NoBody == [t |-> "none", n |-> 0, dicts |-> FALSE, keys |-> {}]
Reply(status, body) == [status |-> status, body |-> body]
\* a body that is not JSON, or the JSON value it decodes to: a string, a
\* list of n elements (all objects with the keys `keys`, or all numbers),
\* or an object with the keys `keys`
NotJson == [NoBody EXCEPT !.t = "notjson"]
StrBody == [NoBody EXCEPT !.t = "str"]
ListBody(n, dicts, keys) == [t |-> "list", n |-> n, dicts |-> dicts, keys |-> keys]
DictBody(keys) == [t |-> "dict", n |-> 0, dicts |-> FALSE, keys |-> keys]

\* lines 35-53: WIDGET_TYPE_VALIDATORS
ValidatedTypes ==
  {"table", "chart", "metric", "markdown", "newsfeed", "html", "pdf",
   "multi_file_viewer", "omni", "ssrm_table", "advanced_charting",
   "chart-highcharts", "live_grid"}
AllElementsHave(b, ks) == b.n = 0 \/ (b.dicts /\ ks \subseteq b.keys)
TypePredicate(type, b) ==
  CASE type \in {"table", "multi_file_viewer", "live_grid"} -> b.t = "list"
    [] type = "chart" -> b.t = "dict" /\ ("data" \in b.keys \/ "layout" \in b.keys)
    [] type = "metric" -> b.t = "list" /\ AllElementsHave(b, {"label", "value"})
    [] type = "markdown" -> b.t = "str"
    [] type = "newsfeed" -> b.t = "list" /\ AllElementsHave(b, {"title"})
    [] type = "html" -> b.t = "str" \/ (b.t = "dict" /\ "content" \in b.keys)
    [] type \in {"pdf", "omni"} -> b.t = "dict" /\ "data_format" \in b.keys
    [] type = "ssrm_table" -> b.t = "dict" /\ "rowData" \in b.keys
    [] type = "chart-highcharts" -> b.t = "dict"
    [] OTHER -> TRUE

\* an `endpoint` value that is a number: it has no lstrip
NumberEndpoint == "<number>"

\* widget.get("widgetId", widget.get("endpoint", "unknown"))
ProbeWidgetId(w) ==
  IF w.widgetId # Absent THEN w.widgetId
  ELSE IF w.endpoint # Absent THEN w.endpoint ELSE "unknown"
\* widget.get("type", "unknown")
ProbeWidgetType(w) == IF w.type = Absent THEN "unknown" ELSE w.type

\* line 122
Method(type) == IF type \in {"omni", "multi_file_viewer", "ssrm_table"} THEN "POST" ELSE "GET"

\* lines 125-132: the keys of the dict `params`
NamesOfRow(row) ==
  {row[j].paramName : j \in {j \in 1..Len(row) : row[j].kind = "obj" /\ row[j].paramName # Absent}}
SentParamNamesTopLevelOnly(w) ==
  IF w.params.t # "list" THEN {}
  ELSE LET ps == w.params.xs
       IN {ps[k].paramName :
             k \in {k \in 1..Len(ps) : ps[k].kind = "obj" /\ ps[k].paramName # Absent}}
SentParamNames(w) ==
  IF w.params.t # "list" THEN {}
  ELSE LET ps == w.params.xs
       IN UNION {IF ps[k].kind = "row" THEN NamesOfRow(ps[k].row)
                 ELSE IF ps[k].kind = "obj" /\ ps[k].paramName # Absent
                 THEN {ps[k].paramName} ELSE {} : k \in 1..Len(ps)}

\* what leaves validate_all as an exception before any request for the
\* widget: widget.get on a value that is no dict (lines 306-308),
\* endpoint.lstrip on a number (line 118), iterating params that is null or a
\* number (line 126)
ProbeRaises(w) ==
  \/ w.kind # "obj"
  \/ w.endpoint = NumberEndpoint
  \/ (w.endpoint \notin {Absent, ""} /\ w.params.t \in {"falsy", "other"})

Verdict(success, message) == [success |-> success, message |-> message]

\* lines 134-186: the reply classified
Classify(type, reply) ==
  IF reply.status = "connection_error" THEN Verdict(FALSE, "connection_refused")
  ELSE IF reply.status = "timeout" THEN Verdict(FALSE, "request_timeout")
  ELSE IF reply.status = "other_exception" THEN Verdict(FALSE, "exception")
  ELSE IF reply.status # "200" THEN Verdict(FALSE, "http_status")
  ELSE IF reply.body.t = "notjson"
  THEN IF type \in {"html", "markdown"} THEN Verdict(TRUE, "ok_non_json")
       ELSE Verdict(FALSE, "invalid_json_response")
  ELSE IF type \in ValidatedTypes /\ ~TypePredicate(type, reply.body)
  THEN Verdict(FALSE, "invalid_response_format")
  ELSE IF reply.body.t = "list" /\ reply.body.n = 0 THEN Verdict(TRUE, "ok_empty_array")
  ELSE IF reply.body.t = "dict" /\ reply.body.keys = {} THEN Verdict(TRUE, "ok_empty_object")
  ELSE Verdict(TRUE, "ok")

\* an entry of `requests`; widget = 0 for the base URL and the core endpoints
Request(widget, target, method, params, reply) ==
  [widget |-> widget, target |-> target, method |-> method, params |-> params,
   reply |-> reply]
\* an entry of self.results; widget = 0 for the core endpoints
Result(widget, widget_id, success, message) ==
  [widget |-> widget, widget_id |-> widget_id, success |-> success, message |-> message]

\* self.widgets once load_widgets has returned True
Widgets == widgetsDoc.xs

Bodies ==
  { NotJson, StrBody, ListBody(0, FALSE, {}), ListBody(1, FALSE, {}),
    ListBody(1, TRUE, {"label", "value"}), ListBody(1, TRUE, {"title"}),
    DictBody({}), DictBody({"data"}), DictBody({"content"}),
    DictBody({"data_format"}), DictBody({"rowData"}) }
Failures == {Reply(st, NoBody) : st \in {"500", "connection_error", "timeout", "other_exception"}}
LivenessReplies == {Reply("200", StrBody)} \cup Failures
CoreWidgetsReplies ==
  {Reply("200", b) : b \in {DictBody({}), StrBody, NotJson}}
    \cup {Reply(st, NoBody) : st \in {"500", "connection_error"}}
CoreAppsReplies == {Reply(st, NoBody) : st \in {"200", "404", "500", "connection_error"}}
ProbeReplies == {Reply("200", b) : b \in Bodies} \cup Failures

EndpointsCheckServerWithoutEarlyReturn ==
  /\ tool = "endpoints" /\ pc = "start"
  /\ \E reply \in LivenessReplies :
       /\ requests' = Append(requests, Request(0, "base", "GET", {}, reply))
       /\ IF reply.status = "other_exception"
          THEN pc' = "raised" /\ UNCHANGED <<errors, result>>
          ELSE /\ pc' = "load_widgets"
               /\ errors' = errors \o SeqIf(reply.status # "200",
                                            Diag("server_not_running", Top, ""))
               /\ UNCHANGED result
  /\ UNCHANGED <<inputs, probe, history, runner, stream, results, warnings, widget_ids,
                 endpoint_names, layouts_validated, positions, ai, ti, ki>>

\* lines 290-295 with check_server_running (92-100): only ConnectionError
\* and Timeout are caught there
EndpointsCheckServer ==
  /\ tool = "endpoints" /\ pc = "start"
  /\ \E reply \in LivenessReplies :
       /\ requests' = Append(requests, Request(0, "base", "GET", {}, reply))
       /\ IF reply.status = "200"
          THEN pc' = "load_widgets" /\ UNCHANGED <<errors, result>>
          ELSE IF reply.status = "other_exception"
          THEN pc' = "raised" /\ UNCHANGED <<errors, result>>
          ELSE /\ errors' = Append(errors, Diag("server_not_running", Top, ""))
               /\ result' = "fail"
               /\ pc' = "returned"
  /\ UNCHANGED <<inputs, probe, history, runner, stream, results, warnings, widget_ids,
                 endpoint_names, layouts_validated, positions, ai, ti, ki>>

\* lines 298-299 with load_widgets (67-90)
EndpointsLoadWidgets ==
  /\ tool = "endpoints" /\ pc = "load_widgets"
  /\ IF widgetsDoc.t \in {"list", "obj"}
     THEN pc' = "core_widgets" /\ UNCHANGED <<errors, result>>
     ELSE /\ errors' = Append(errors,
               Diag(IF widgetsDoc.t = "absent" THEN "widgets_json_not_found"
                    ELSE IF widgetsDoc.t = "malformed" THEN "invalid_json"
                    ELSE "widgets_json_must_be_array_or_object", Top, ""))
          /\ result' = "fail"
          /\ pc' = "returned"
  /\ UNCHANGED <<inputs, probe, history, runner, stream, http, warnings, widget_ids,
                 endpoint_names, layouts_validated, positions, ai, ti, ki>>

\* lines 190-248: GET /widgets.json
EndpointsCoreWidgets ==
  /\ tool = "endpoints" /\ pc = "core_widgets"
  /\ \E reply \in CoreWidgetsReplies :
       LET ok == reply.status = "200" /\ reply.body.t \in {"list", "dict"}
           message == IF ok THEN "ok"
                      ELSE IF reply.status # "200"
                      THEN (IF reply.status = "500" THEN "http_status" ELSE "exception")
                      ELSE IF reply.body.t = "notjson" THEN "invalid_json"
                      ELSE "invalid_format"
       IN /\ requests' = Append(requests, Request(0, "/widgets.json", "GET", {}, reply))
          /\ results' = Append(results, Result(0, "/widgets.json", ok, message))
          /\ errors' = errors \o SeqIf(~ok, Diag("core_widgets_json", Top, message))
  /\ pc' = "core_apps"
  /\ UNCHANGED <<inputs, probe, history, runner, stream, warnings, widget_ids, endpoint_names,
                 layouts_validated, positions, ai, ti, ki, result>>

\* lines 250-286: GET /apps.json, then line 305 enters the loop
EndpointsCoreApps ==
  /\ tool = "endpoints" /\ pc = "core_apps"
  /\ \E reply \in CoreAppsReplies :
       /\ requests' = Append(requests, Request(0, "/apps.json", "GET", {}, reply))
       /\ results' = results \o
            SeqIf(reply.status \in {"200", "404", "500"},
                  Result(0, "/apps.json", reply.status # "500",
                         IF reply.status = "200" THEN "ok"
                         ELSE IF reply.status = "404" THEN "not_found_optional"
                         ELSE "http_status"))
       /\ warnings' = warnings \o
            SeqIf(reply.status \in {"404", "connection_error"},
                  Diag(IF reply.status = "404" THEN "core_apps_json_not_found"
                       ELSE "core_apps_json_error", Top, ""))
  /\ IF Len(Widgets) > 0 THEN pc' = "probe" /\ ki' = 1
     ELSE pc' = "finish" /\ ki' = ki
  /\ UNCHANGED <<inputs, probe, history, runner, stream, errors, widget_ids, endpoint_names,
                 layouts_validated, positions, ai, ti, result>>

\* lines 305-323, one pass of the loop, with validate_endpoint (102-186)
EndpointsProbeWidget ==
  /\ tool = "endpoints" /\ pc = "probe"
  /\ LET w == Widgets[ki]
         Recorded(v) ==
           /\ results' = Append(results, Result(ki, ProbeWidgetId(w), v.success, v.message))
           /\ errors' = errors \o SeqIf(~v.success, Diag(v.message, <<0, 0, ki>>, ProbeWidgetId(w)))
           /\ IF ki < Len(Widgets) THEN pc' = "probe" /\ ki' = ki + 1
              ELSE pc' = "finish" /\ ki' = ki
     IN IF ProbeRaises(w)
        THEN pc' = "raised" /\ UNCHANGED <<errors, http, ki>>
        ELSE IF w.endpoint \in {Absent, ""}
        THEN Recorded(Verdict(FALSE, "no_endpoint_defined")) /\ UNCHANGED requests
        ELSE \E reply \in ProbeReplies :
               /\ requests' = Append(requests,
                    Request(ki, w.endpoint, Method(ProbeWidgetType(w)), SentParamNames(w), reply))
               /\ Recorded(Classify(ProbeWidgetType(w), reply))
  /\ UNCHANGED <<inputs, probe, history, runner, stream, warnings, widget_ids, endpoint_names,
                 layouts_validated, positions, ai, ti, result>>

\* line 325
EndpointsReturn ==
  /\ tool = "endpoints" /\ pc = "finish"
  /\ result' = Passed(errors, warnings)
  /\ pc' = "returned"
  /\ UNCHANGED <<inputs, probe, history, runner, stream, http, errors, warnings, widget_ids,
                 endpoint_names, layouts_validated, positions, ai, ti, ki>>

ProbeNarrowWidgets == {Widget(TRUE, "table", "ep1"), Widget(TRUE, "markdown", ""), NumberWidget}
ProbeParamsVals ==
  { JAbsent, JFalsy, JOther, JList(<<>>),
    JList(<<ParamRow(<<Param("a", "text"), Param("b", "text")>>), Param("c", "number")>>),
    JList(<<Param("c", "number"), ParamRow(<<Param("a", "text"), Param(Absent, "text")>>),
            Param("a", "date")>>),
    JList(<<NonObjectParam, ParamRow(<<ParamRow(<<Param("x", "text")>>), Param(Absent, "text")>>)>>) }
ProbeWideWidgets ==
  {Widget(TRUE, ty, "ep1") : ty \in VALID_WIDGET_TYPES \cup {Absent, "", "bogus"}}
    \cup {[Widget(TRUE, "table", ep) EXCEPT !.params = ps, !.widgetId = id] :
            ep \in {Absent, "", "ep1", NumberEndpoint}, ps \in ProbeParamsVals,
            id \in {Absent, "w1"}}
EndpointsInputs ==
  {WAbsent, WMalformed, JOther, JFalsy, JObj(<<>>), JList(<<>>)}
    \cup {JObj(Keyed(ws)) : ws \in SeqsUpTo(ProbeNarrowWidgets, MaxWidgets) \ {<<>>}}
    \cup {JList(ws) : ws \in SeqsUpTo(ProbeNarrowWidgets, MaxWidgets) \ {<<>>}}
    \cup {JObj(Keyed(<<w>>)) : w \in ProbeWideWidgets}

InitEndpoints ==
  /\ tool = "endpoints"
  /\ widgetsDoc \in EndpointsInputs
  /\ appsDoc = WAbsent
  /\ runner = NoRunner
  /\ Constructed

NextEndpoints ==
  \/ EndpointsCheckServer
  \/ EndpointsLoadWidgets
  \/ EndpointsCoreWidgets
  \/ EndpointsCoreApps
  \/ EndpointsProbeWidget
  \/ EndpointsReturn

SpecEndpoints == InitEndpoints /\ [][NextEndpoints]_vars

(***************************************************************************)
(* widget-types/html_widget/main.py: websocket_endpoint and                *)
(* connect_to_binance_websocket on one asyncio event loop.  Each action is *)
(* the code a coroutine runs between two awaits.                           *)
(***************************************************************************)
validators ==
  <<widgetsDoc, appsDoc, pc, errors, warnings, widget_ids, endpoint_names,
    layouts_validated, positions, ai, ti, ki, result, probe, history, runner, http>>

\* the tasks created for a stream key
TasksOf(s) == {t \in 1..Len(tasks) : tasks[t].key = s}

\* a task at `async for message in binance_ws`; it gets the messages
\* published after it was created
Task(s, seen) ==
  [key |-> s, pc |-> "listen", seen |-> seen, obj |-> 0, size |-> 0,
   visited |-> {}, disconnected |-> {}, raised |-> ""]

\* a client opens /ws/binance with a symbol, interval and exchange; the
\* handler is at `await websocket.accept()` (line 139)
WsConnect(c, s) ==
  /\ tool = "stream"
  /\ sockets[c].pc = "none"
  /\ \A d \in 1..(c - 1) : sockets[d].pc # "none"
  /\ sockets' = [sockets EXCEPT ![c] = [pc |-> "accept", key |-> s, open |-> TRUE]]
  /\ UNCHANGED <<tool, validators, active_connections, tasks, received, published>>

\* lines 141-159: the key is entered and a task created when the key is not
\* in the dict, the socket is added; the handler is at the send of the
\* historical data
WsAccepted(c) ==
  /\ tool = "stream"
  /\ sockets[c].pc = "accept"
  /\ LET s == sockets[c].key
         new == ~active_connections[s].in
     IN /\ active_connections' =
             [active_connections EXCEPT ![s] =
                IF new THEN Entry(Cardinality(TasksOf(s)) + 1, {c})
                ELSE Entry(@.obj, @.conns \cup {c})]
        /\ tasks' = IF new THEN Append(tasks, Task(s, published[s])) ELSE tasks
  /\ sockets' = [sockets EXCEPT ![c].pc = "history"]
  /\ UNCHANGED <<tool, validators, received, published>>

\* lines 163-167, the except block
DisconnectHandler(c) ==
  LET s == sockets[c].key
      left == active_connections[s].conns \ {c}
  IN IF ~active_connections[s].in
     THEN /\ sockets' = [sockets EXCEPT ![c].pc = "KeyError"]
          /\ UNCHANGED active_connections
     ELSE /\ active_connections' =
               [active_connections EXCEPT ![s] =
                  IF left = {} THEN NoEntry ELSE Entry(@.obj, left)]
          /\ sockets' = [sockets EXCEPT ![c].pc = "closed"]

\* lines 156-159: the send of the historical data returns, or raises
\* WebSocketDisconnect, or raises another exception that leaves the handler
WsHistorySent(c) ==
  /\ tool = "stream"
  /\ sockets[c].pc = "history"
  /\ IF sockets[c].open
     THEN /\ sockets' = [sockets EXCEPT ![c].pc = "receive"]
          /\ UNCHANGED active_connections
     ELSE \/ DisconnectHandler(c)
          \/ /\ sockets' = [sockets EXCEPT ![c].pc = "error"]
             /\ UNCHANGED active_connections
  /\ UNCHANGED <<tool, validators, tasks, received, published>>

\* lines 162-163: receive_text raises WebSocketDisconnect
WsDisconnected(c) ==
  /\ tool = "stream"
  /\ sockets[c].pc = "receive" /\ ~sockets[c].open
  /\ DisconnectHandler(c)
  /\ UNCHANGED <<tool, validators, tasks, received, published>>

\* the peer goes away
PeerDrops(c) ==
  /\ tool = "stream"
  /\ sockets[c].pc \in {"history", "receive"} /\ sockets[c].open
  /\ sockets' = [sockets EXCEPT ![c].open = FALSE]
  /\ UNCHANGED <<tool, validators, active_connections, tasks, received, published>>

\* Binance sends the next kline message of a stream somebody listens to
Publish(s) ==
  /\ tool = "stream"
  /\ TasksOf(s) # {}
  /\ published[s] < MaxCandles
  /\ published' = [published EXCEPT ![s] = @ + 1]
  /\ UNCHANGED <<tool, validators, active_connections, tasks, sockets, received>>

\* lines 116-124 from one await of send_json to the next: the set iterator
\* raises RuntimeError when the set changed size, the loop ends when no
\* member is left and the clean-up of line 124 looks the key up again
\* (KeyError when it is gone); both exceptions are caught at line 126.
\* `set` is what the iterated set object holds now.
Broadcast(t, task, set) ==
  LET s == task.key
      todo == set \ task.visited
      Back(exc) == [task EXCEPT !.pc = "listen", !.visited = {}, !.disconnected = {},
                                !.raised = exc]
  IN IF Cardinality(set) # task.size
     THEN /\ tasks' = [tasks EXCEPT ![t] = Back("RuntimeError")]
          /\ UNCHANGED <<active_connections, received>>
     ELSE IF todo = {}
     THEN IF ~active_connections[s].in
          THEN /\ tasks' = [tasks EXCEPT ![t] = Back("KeyError")]
               /\ UNCHANGED <<active_connections, received>>
          ELSE /\ active_connections' =
                    [active_connections EXCEPT ![s].conns = @ \ task.disconnected]
               /\ tasks' = [tasks EXCEPT ![t] = Back(task.raised)]
               /\ UNCHANGED received
     ELSE \E c \in todo :
            /\ UNCHANGED active_connections
            /\ IF sockets[c].open
               THEN /\ received' = [received EXCEPT ![c] = Append(@, task.seen)]
                    /\ tasks' = [tasks EXCEPT ![t] =
                                   [task EXCEPT !.pc = "send", !.visited = @ \cup {c}]]
               ELSE /\ UNCHANGED received
                    /\ \E fails \in BOOLEAN :
                         tasks' = [tasks EXCEPT ![t] =
                                     [task EXCEPT !.pc = "send", !.visited = @ \cup {c},
                                                  !.disconnected =
                                                    IF fails THEN @ \cup {c} ELSE @]]

\* lines 100-117: a kline message arrives at a task; without the key in the
\* dict nothing is sent
TaskMessage(t) ==
  /\ tool = "stream"
  /\ tasks[t].pc = "listen"
  /\ tasks[t].seen < published[tasks[t].key]
  /\ LET s == tasks[t].key
         task == [tasks[t] EXCEPT !.seen = @ + 1]
     IN IF ~active_connections[s].in
        THEN /\ tasks' = [tasks EXCEPT ![t] = task]
             /\ UNCHANGED <<active_connections, received>>
        ELSE Broadcast(t, [task EXCEPT !.obj = active_connections[s].obj,
                                       !.size = Cardinality(active_connections[s].conns)],
                       active_connections[s].conns)
  /\ UNCHANGED <<tool, validators, sockets, published>>

\* line 120 returns or raises: the loop goes on.  A set object that was
\* deleted from the dict is empty and stays so.
TaskResumes(t) ==
  /\ tool = "stream"
  /\ tasks[t].pc = "send"
  /\ LET e == active_connections[tasks[t].key]
     IN Broadcast(t, tasks[t], IF e.in /\ e.obj = tasks[t].obj THEN e.conns ELSE {})
  /\ UNCHANGED <<tool, validators, sockets, published>>

InitStream ==
  /\ tool = "stream"
  /\ widgetsDoc = WAbsent /\ appsDoc = WAbsent
  /\ runner = NoRunner
  /\ Constructed

NextStream ==
  \/ \E c \in Clients, s \in StreamKeys : WsConnect(c, s)
  \/ \E c \in Clients : WsAccepted(c)
  \/ \E c \in Clients : WsHistorySent(c)
  \/ \E c \in Clients : WsDisconnected(c)
  \/ \E c \in Clients : PeerDrops(c)
  \/ \E s \in StreamKeys : Publish(s)
  \/ \E t \in 1..Len(tasks) : TaskMessage(t)
  \/ \E t \in 1..Len(tasks) : TaskResumes(t)

SpecStream == InitStream /\ [][NextStream]_vars

(***************************************************************************)
(* The properties.  What follows reads the documents directly, so that     *)
(* what the validators report is compared with the input and not with      *)
(* their own bookkeeping.                                                  *)
(***************************************************************************)
Max2(a, b) == IF a >= b THEN a ELSE b
Min2(a, b) == IF a <= b THEN a ELSE b
Least(S) == CHOOSE j \in S : \A k \in S : j <= k
Greatest(S) == CHOOSE j \in S : \A k \in S : j >= k

ItemCoords(it) ==
  <<Get(it.x, DefaultX), Get(it.y, DefaultY), Get(it.w, DefaultW), Get(it.h, DefaultH)>>
\* the layout items that have a place on the grid: objects with a widget id
\* and four numbers
Placed(it) ==
  it.kind = "obj" /\ Truthy(it.i) /\ \A c \in 1..4 : IsNum(ItemCoords(it)[c])
ItemsOverlap(a, b) ==
  LET ca == ItemCoords(a)
      cb == ItemCoords(b)
  IN RectanglesOverlap(ca[1].n, ca[2].n, ca[3].n, ca[4].n,
                       cb[1].n, cb[2].n, cb[3].n, cb[4].n)
LayoutAt(a, t) == appsDoc.xs[a].tabs.xs[t].layout.xs
\* the earlier items of the layout that item k overlaps
OverlappedEarlier(lay, k) == {j \in 1..(k - 1) : Placed(lay[j]) /\ ItemsOverlap(lay[j], lay[k])}
DiagsAt(ds, loc) == SelectSeq(ds, LAMBDA d : d[2] = loc)
OverlapWarningsInTab(a, t) ==
  Cardinality({n \in 1..Len(warnings) :
                 /\ warnings[n][1] = "may_overlap"
                 /\ warnings[n][2][1] = a
                 /\ warnings[n][2][2] = t})
Added(kind) == CountKind(errors', kind) - CountKind(errors, kind)

\* C1: when either validate() has returned, it returned pass exactly when the
\* error list is empty; warnings do not make the run fail.
C1_PassIffNoErrors ==
  pc = "returned" => (result = "pass" <=> Len(errors) = 0)

\* a run of AppsValidator that returned pass with warnings reported
C1_PassedWithWarnings ==
  /\ pc = "returned" /\ tool = "apps"
  /\ result = "pass" /\ Len(errors) = 0 /\ Len(warnings) > 0

\* C2: on every syntactically valid pair of documents the validators return
\* and never raise.
C2_NeverRaises ==
  pc # "raised"

C4_BeyondGridIffOver40 ==
  [][ (/\ pc = "item" /\ CurItem.kind = "obj"
       /\ Truthy(CurItem.i) /\ Hashable(CurItem.i)
       /\ IsNum(CurItem.x) /\ IsNum(CurItem.w))
        => Added("beyond_grid") =
             (IF ItemCoords(CurItem)[1].n + ItemCoords(CurItem)[3].n > GridWidth
              THEN 1 ELSE 0) ]_vars

\* C5: for rectangles of positive width and height _rectangles_overlap is true
\* exactly when the half-open intervals [x, x+w) intersect and the half-open
\* intervals [y, y+h) intersect; rectangles that share only an edge do not
\* overlap.
HalfOpenIntersect(a, la, b, lb) == Max2(a, b) < Min2(a + la, b + lb)
PositiveRect(r) == r[3] > 0 /\ r[4] > 0
C5_OverlapIsHalfOpenIntersection ==
  (tool = "overlap" /\ pc = "returned" /\ PositiveRect(rectA) /\ PositiveRect(rectB))
    => /\ overlaps <=> (/\ HalfOpenIntersect(rectA[1], rectA[3], rectB[1], rectB[3])
                        /\ HalfOpenIntersect(rectA[2], rectA[4], rectB[2], rectB[4]))
       /\ (rectA[1] + rectA[3] = rectB[1] \/ rectA[2] + rectA[4] = rectB[2]) => ~overlaps

\* two rectangles side by side, sharing one edge, found not to overlap
C5_TouchingNotOverlapping ==
  /\ tool = "overlap" /\ pc = "returned"
  /\ PositiveRect(rectA) /\ PositiveRect(rectB)
  /\ rectA[1] + rectA[3] = rectB[1]
  /\ rectA[2] = rectB[2] /\ rectA[4] = rectB[4]
  /\ ~overlaps

\* C6: _rectangles_overlap(a, b) equals _rectangles_overlap(b, a) for all
\* rectangles, and _rectangles_overlap(a, a) is true for every rectangle of
\* positive width and height.
C6_SymmetricAndReflexive ==
  (tool = "overlap" /\ pc = "returned")
    => /\ overlaps = RectanglesOverlap(rectB[1], rectB[2], rectB[3], rectB[4],
                                       rectA[1], rectA[2], rectA[3], rectA[4])
       /\ (rectA = rectB /\ PositiveRect(rectA)) => overlaps

\* a rectangle of positive width and height compared with itself
C6_SelfOverlap ==
  /\ tool = "overlap" /\ pc = "returned"
  /\ rectA = rectB /\ PositiveRect(rectA) /\ overlaps

\* C7: a layout item has at most one overlap warning, it names the earliest
\* earlier item of the layout that the item overlaps, a layout of n items has
\* at most n - 1 overlap warnings, and the item's errors are those it gets
\* with no earlier item at all.
C7_OneOverlapWarningPerItem ==
  /\ CountKind(errors, "may_overlap") = 0
  /\ \A n \in 1..Len(warnings) :
       warnings[n][1] = "may_overlap" =>
         LET loc == warnings[n][2]
             lay == LayoutAt(loc[1], loc[2])
             E == OverlappedEarlier(lay, loc[3])
         IN /\ CountAt(warnings, "may_overlap", loc) = 1
            /\ E # {}
            /\ warnings[n][3] = IdText(lay[Least(E)].i)
            /\ OverlapWarningsInTab(loc[1], loc[2]) <= Len(lay) - 1
            /\ DiagsAt(errors, loc) =
                 ValidateLayoutItem(loc, lay[loc[3]], widget_ids, <<>>).errs

\* an item that overlaps two earlier items with different ids and is warned
\* about once, for the first of them
C7_WarnedAboutFirstOfTwo ==
  /\ pc = "returned"
  /\ \E n \in 1..Len(warnings) :
       /\ warnings[n][1] = "may_overlap"
       /\ LET loc == warnings[n][2]
              lay == LayoutAt(loc[1], loc[2])
              E == OverlappedEarlier(lay, loc[3])
          IN /\ Cardinality(E) >= 2
             /\ lay[Least(E)].i # lay[Greatest(E)].i
             /\ warnings[n][3] = IdText(lay[Least(E)].i)
             /\ CountAt(warnings, "may_overlap", loc) = 1

\* C8: one named app, one tab, a layout of two identical in-bounds items
\* whose widget id is known: validate returns pass with exactly one overlap
\* warning and no error.
TwoIdenticalItems ==
  /\ tool = "apps" /\ appsDoc.t = "list" /\ Len(appsDoc.xs) = 1
  /\ LET app == appsDoc.xs[1]
     IN /\ app.kind = "obj" /\ app.name /\ HasTabs(app) /\ Len(app.tabs.xs) = 1
        /\ LET tab == app.tabs.xs[1]
           IN /\ tab.kind = "obj" /\ tab.name /\ tab.id
              /\ HasLayout(tab) /\ Len(tab.layout.xs) = 2
              /\ tab.layout.xs[1] = tab.layout.xs[2]
              /\ LET it == tab.layout.xs[1]
                     c == ItemCoords(it)
                 IN /\ Placed(it) /\ it.state.t = "absent" /\ it.groups.t = "absent"
                    /\ Hashable(it.i) /\ it.i.s \in KnownWidgetIds(widgetsDoc)
                    /\ c[1].n >= 0 /\ c[2].n >= 0 /\ c[3].n > 0 /\ c[4].n > 0
                    /\ c[1].n + c[3].n <= GridWidth

C8_TwoIdenticalItemsPass ==
  TwoIdenticalItems =>
    /\ pc # "raised"
    /\ pc = "returned" =>
         /\ CountKind(warnings, "may_overlap") = 1
         /\ Len(errors) = 0
         /\ result = "pass"

\* such a document, the two items ending at the right edge of the grid
C8_TwoIdenticalItemsReturned ==
  /\ TwoIdenticalItems /\ pc = "returned"
  /\ ItemCoords(LayoutAt(1, 1)[1])[1].n + ItemCoords(LayoutAt(1, 1)[1])[3].n = GridWidth
  /\ CountKind(warnings, "may_overlap") = 1

\* C9: while a tab's layout is being validated the position history holds the
\* earlier placed items of that layout and nothing else, so it is empty before
\* the first item; every overlap warning is about an earlier item of the same
\* layout.
PlacedBefore(lay, k) ==
  LET idx == SelectSeq([j \in 1..(k - 1) |-> j], LAMBDA j : Placed(lay[j]))
  IN [n \in 1..Len(idx) |->
        <<lay[idx[n]].i, ItemCoords(lay[idx[n]])[1].n, ItemCoords(lay[idx[n]])[2].n,
          ItemCoords(lay[idx[n]])[3].n, ItemCoords(lay[idx[n]])[4].n>>]

C9_PositionsLocalToTab ==
  /\ (tool = "apps" /\ pc = "item") => positions = PlacedBefore(CurTab.layout.xs, ki)
  /\ \A n \in 1..Len(warnings) :
       warnings[n][1] = "may_overlap" =>
         OverlappedEarlier(LayoutAt(warnings[n][2][1], warnings[n][2][2]),
                           warnings[n][2][3]) # {}

\* two tabs of one app, each holding the same one item: no overlap warning
C9_SameItemInTwoTabs ==
  /\ tool = "apps" /\ pc = "returned" /\ appsDoc.t = "list"
  /\ \E a \in 1..Len(appsDoc.xs) :
       /\ HasTabs(appsDoc.xs[a]) /\ Len(appsDoc.xs[a].tabs.xs) = 2
       /\ HasLayout(appsDoc.xs[a].tabs.xs[1]) /\ LayoutAt(a, 1) = LayoutAt(a, 2)
       /\ Len(LayoutAt(a, 1)) = 1 /\ Placed(LayoutAt(a, 1)[1])
  /\ CountKind(warnings, "may_overlap") = 0

\* C10: when widgets.json is an array, WidgetValidator.validate returns fail
\* at once: the error list is the one must-be-an-object error, there is no
\* warning, no widget was collected or checked.
C10_ArrayRejectedAtOnce ==
  (tool = "widgets" /\ widgetsDoc.t = "list" /\ pc # "start")
    => /\ pc = "returned" /\ result = "fail"
       /\ errors = <<Diag("widgets_json_must_be_object_not_array", Top, "")>>
       /\ warnings = <<>>
       /\ widget_ids = {} /\ endpoint_names = {}
       /\ ki = 0

\* an array holding two widgets, one of them not an object
C10_ArrayOfTwoReturned ==
  /\ tool = "widgets" /\ widgetsDoc.t = "list" /\ Len(widgetsDoc.xs) = 2
  /\ \E k \in 1..2 : widgetsDoc.xs[k].kind # "obj"
  /\ pc = "returned" /\ result = "fail" /\ Len(errors) = 1

\* C11: a widgets.json object whose widgets all have name, type and endpoint
\* and valid enum values (widget type, parameter type, cellDataType), and
\* whose other fields are well-formed too (numeric gridData, parameters with
\* paramName and type, optionsEndpoint on endpoint parameters, options a
\* list of objects with a value, params a list, columnsDefs a list of objects
\* with a field,
\* object sparklines, mcp_tool an object with both keys, a number or boolean as
\* refetchInterval), validates with an empty error list and returns pass.
LeafParams(w) ==
  IF w.params.t = "list"
  THEN SelectSeq(FlattenParams(w.params.xs), LAMBDA q : q.kind = "obj")
  ELSE <<>>
ColumnsOf(w) ==
  IF w.type = "table" /\ w.data.t = "obj" /\ w.data.columnsDefs.t = "list"
  THEN w.data.columnsDefs.xs
  ELSE <<>>
RequiredAndEnumsValid(doc) ==
  /\ doc.t = "obj"
  /\ \A k \in 1..Len(doc.xs) :
       LET w == doc.xs[k]
       IN /\ w.kind = "obj"
          /\ w.name /\ w.endpoint # Absent
          /\ w.type \in VALID_WIDGET_TYPES
          /\ \A n \in 1..Len(LeafParams(w)) :
               LeafParams(w)[n].type \in VALID_PARAM_TYPES \cup {Absent}
          /\ \A n \in 1..Len(ColumnsOf(w)) :
               ColumnsOf(w)[n].kind = "obj" =>
                 ColumnsOf(w)[n].cellDataType \in VALID_CELL_DATA_TYPES \cup {Absent}
OtherFieldsWellFormed(doc) ==
  \A k \in 1..Len(doc.xs) :
    LET w == doc.xs[k]
    IN /\ \/ IsFalsy(w.gridData)
          \/ /\ w.gridData.t = "obj"
             /\ IsNum(Get(w.gridData.w, DefaultW)) /\ IsNum(Get(w.gridData.h, DefaultH))
             /\ \A m \in 1..4 : w.gridData.mins[m].t # "str"
       /\ w.params.t \in {"absent", "list"}
       /\ \A n \in 1..Len(LeafParams(w)) :
            LET q == LeafParams(w)[n]
            IN /\ q.paramName # Absent /\ q.type # Absent
               /\ q.type = "endpoint" => q.optionsEndpoint
               /\ q.type = "text" =>
                    \/ q.options.t = "absent"
                    \/ /\ q.options.t = "list"
                       /\ \A o \in 1..Len(q.options.xs) : q.options.xs[o] = "ok"
       /\ w.type = "table" =>
            /\ w.data.t \in {"absent", "obj"}
            /\ IsFalsy(w.data.columnsDefs) \/ w.data.columnsDefs.t = "list"
            /\ \A n \in 1..Len(ColumnsOf(w)) :
                 /\ ColumnsOf(w)[n].kind = "obj"
                 /\ ColumnsOf(w)[n].field # Absent
                 /\ ColumnsOf(w)[n].sparkline.t \in {"absent", "obj"}
       /\ \/ w.mcp_tool.t = "absent"
          \/ w.mcp_tool.t = "obj" /\ w.mcp_tool.mcp_server /\ w.mcp_tool.tool_id
       /\ w.refetchInterval.t # "str"

C12_SecondCallSameLists ==
  (run = 2 /\ pc = "returned") => (errors = firstErrors /\ warnings = firstWarnings)

\* C13: when apps.json is absent AppsValidator.validate returns pass at once
\* with the not-found warning as its only diagnostic; widgets.json is not
\* read (no widget id is loaded, whatever the file holds) and no app, tab or
\* layout is checked.
C13_AbsentAppsPassesAtOnce ==
  (tool = "apps" /\ appsDoc.t = "absent" /\ pc # "start")
    => /\ pc = "returned" /\ result = "pass"
       /\ errors = <<>>
       /\ warnings = <<Diag("apps_json_not_found", Top, "")>>
       /\ widget_ids = {}
       /\ layouts_validated = 0 /\ ai = 0

\* apps.json absent beside a widgets.json that holds a widget
C13_AbsentAppsBesideWidgets ==
  /\ tool = "apps" /\ appsDoc.t = "absent" /\ pc = "returned"
  /\ widgetsDoc.t = "obj" /\ Len(widgetsDoc.xs) > 0
  /\ result = "pass" /\ Len(warnings) = 1

\* C14: when apps.json is malformed, a JSON object or any other non-array
\* value, AppsValidator.validate returns fail with exactly one error and no
\* per-app check.
C14_NonArrayAppsOneError ==
  (tool = "apps" /\ appsDoc.t \notin {"absent", "list"} /\ pc \notin {"start", "load_widgets"})
    => /\ pc \in {"load_apps", "returned"}
       /\ pc = "returned" =>
            /\ result = "fail" /\ Len(errors) = 1
            /\ errors[1][1] \in {"invalid_json_in_apps_json", "apps_json_must_be_array",
                                 "apps_json_must_be_array_not_object"}
            /\ ai = 0 /\ layouts_validated = 0

\* C15: when validate_app.py has exited, its exit code is 0 exactly when both
\* validator runs succeeded, and 1 when either failed (non-zero exit, crash,
\* or script missing); the apps validator is started only after the widgets
\* validator has ended.
C15_ExitZeroIffBothSucceeded ==
  /\ runner.stage = "widgets" => tool \in {"widgets", "idle"}
  /\ runner.stage = "exited" =>
       /\ runner.exit \in {0, 1}
       /\ runner.exit = 0 <=> (runner.widgets_ok /\ runner.apps_ok)

\* the widget ids WidgetValidator.validate leaves in widget_ids when it
\* returns: the keys of a top-level object, nothing for any other document
ReportedWidgetIds(doc) ==
  IF doc.t = "obj" THEN {doc.xs[k].key : k \in 1..Len(doc.xs)} ELSE {}

\* C16: for the same widgets.json the id set AppsValidator checks references
\* against (once apps.json is being validated) equals the id set
\* WidgetValidator reports, and when that set is empty (document absent,
\* unparseable or rejected, e.g. a top-level array) no unresolved-reference
\* error for a layout item or a group is recorded.
C16_SameWidgetIdsInBothValidators ==
  /\ (tool = "widgets" /\ pc = "returned") =>
       widget_ids = ReportedWidgetIds(widgetsDoc)
  /\ (tool = "apps" /\ pc = "returned" /\ appsDoc.t # "absent") =>
       /\ widget_ids = ReportedWidgetIds(widgetsDoc)
       /\ ReportedWidgetIds(widgetsDoc) = {} =>
            /\ CountKind(errors, "widget_not_found") = 0
            /\ CountKind(errors, "group_unknown_widget") = 0

\* check_server_running returned False: the reply to the first request
ServerDown ==
  /\ tool = "endpoints" /\ Len(requests) >= 1
  /\ requests[1].reply.status \in {"500", "connection_error", "timeout"}
ServerLive ==
  /\ tool = "endpoints" /\ Len(requests) >= 1
  /\ requests[1].reply.status = "200"

WidgetResults == SelectSeq(results, LAMBDA r : r.widget # 0)
WidgetRequests == SelectSeq(requests, LAMBDA r : r.widget # 0)
ProbeEnded == ServerLive /\ widgetsDoc.t \in {"list", "obj"} /\ pc \in {"returned", "raised"}
OneResultPerWidgetInOrder ==
  /\ Len(WidgetResults) = Len(Widgets)
  /\ \A k \in 1..Len(WidgetResults) : WidgetResults[k].widget = k
AtMostOneRequestPerWidgetInOrder ==
  \A m, n \in 1..Len(WidgetRequests) :
    m < n => WidgetRequests[m].widget < WidgetRequests[n].widget
OneErrorPerFailedProbe ==
  \A k \in 1..Len(WidgetResults) :
    /\ Len(DiagsAt(errors, <<0, 0, k>>)) = IF WidgetResults[k].success THEN 0 ELSE 1
    /\ (\A n \in 1..Len(WidgetRequests) : WidgetRequests[n].widget # k)
         => ~WidgetResults[k].success
    /\ \A n \in 1..Len(WidgetRequests) :
         (WidgetRequests[n].widget = k /\ WidgetRequests[n].reply.status # "200")
           => ~WidgetResults[k].success

\* C18: with a live server, once validate_all has ended every widget of the
\* document has exactly one result, in document order, at most one request
\* was made for it, also in document order, and it has one error line if its
\* probe failed (no endpoint, no reply, non-200 reply, undecodable or
\* ill-shaped body) and none if it succeeded.
C18_OneProbeOneResultPerWidget ==
  ProbeEnded =>
    /\ OneResultPerWidgetInOrder
    /\ AtMostOneRequestPerWidgetInOrder
    /\ OneErrorPerFailedProbe

\* how many of name, type and endpoint the widget lacks
AbsentRequired(w) ==
  (IF w.name THEN 0 ELSE 1) + (IF w.type = Absent THEN 1 ELSE 0)
    + (IF w.endpoint = Absent THEN 1 ELSE 0)
TypePresentButInvalid(w) == w.type # Absent /\ w.type \notin VALID_WIDGET_TYPES
WidgetsAllValidated ==
  /\ tool = "widgets" /\ pc = "returned" /\ widgetsDoc.t = "obj"
  /\ Len(widgetsDoc.xs) > 0
  /\ \A k \in 1..Len(widgetsDoc.xs) : widgetsDoc.xs[k].kind = "obj"

\* C19: once WidgetValidator.validate has returned over an object of widget
\* objects, every widget has one 'Missing required field' error per absent
\* one of name, type, endpoint, has one 'Invalid widget type' error exactly
\* when its type is present and not one of the 13 valid types, and the
\* result is fail if any widget has either defect.
C19_RequiredFieldsAndTypeReported ==
  WidgetsAllValidated =>
    \A k \in 1..Len(widgetsDoc.xs) :
      LET w == widgetsDoc.xs[k]
      IN /\ CountAt(errors, "missing_required_field", <<k, 0, 0>>) = AbsentRequired(w)
         /\ CountAt(errors, "invalid_widget_type", <<k, 0, 0>>)
              = IF TypePresentButInvalid(w) THEN 1 ELSE 0
         /\ (AbsentRequired(w) > 0 \/ TypePresentButInvalid(w)) => result = "fail"

\* C20: one call of _validate_layout_item on an object with a widget id adds,
\* for each of x, y, w, h that is a number outside its range, exactly that
\* coordinate's range error, whatever the other coordinates are (a
\* non-number among them included), and still makes the grid bounds check on
\* numeric x and w and the checks of the item's state and groups.
C20_RangeChecksIndependent ==
  [][ (/\ tool = "apps" /\ pc = "item" /\ CurItem.kind = "obj"
       /\ Truthy(CurItem.i) /\ Hashable(CurItem.i))
        => LET cs == ItemCoords(CurItem)
           IN /\ \A k \in 1..4 :
                   Added(RangeKind[k]) =
                     (IF IsNum(cs[k]) /\ RangeViolated(k, cs[k]) THEN 1 ELSE 0)
              /\ (IsNum(cs[1]) /\ IsNum(cs[3])) =>
                   Added("beyond_grid") = (IF cs[1].n + cs[3].n > GridWidth THEN 1 ELSE 0)
              /\ CurItem.state.t = "nonobj" => Added("state_must_be_object") = 1
              /\ CurItem.groups.t = "other" => Added("item_groups_must_be_array") = 1 ]_vars

\* C21: one call of _validate_layout_item on an object whose `i` is missing
\* or empty appends exactly the 'Missing widget ID' error for that item, no
\* warning, and leaves the position history as it was; the history never
\* holds an item without a widget id, so no later item can be reported as
\* overlapping one.
Idless(it) == it.kind = "obj" /\ it.i \in {IdNone, IdStr("")}
C21_IdlessItemOnlyMissingIdError ==
  [][ /\ (tool = "apps" /\ pc = "item" /\ Idless(CurItem))
         => /\ errors' = Append(errors, Diag("missing_widget_id", <<ai, ti, ki>>, ""))
            /\ warnings' = warnings
            /\ positions' = positions
      /\ \A k \in 1..Len(positions') : positions'[k][1] \notin {IdNone, IdStr("")} ]_vars

\* an item without `i`, out of range and with a bad state and groups, then an
\* item on the same cells: one error for the first, no overlap warning
C21_IdlessItemThenOverlappingItem ==
  /\ tool = "apps" /\ pc = "returned" /\ appsDoc.t = "list" /\ Len(appsDoc.xs) = 1
  /\ HasTabs(appsDoc.xs[1]) /\ HasLayout(appsDoc.xs[1].tabs.xs[1])
  /\ Len(LayoutAt(1, 1)) = 2
  /\ Idless(LayoutAt(1, 1)[1]) /\ LayoutAt(1, 1)[1].state.t = "nonobj"
  /\ LayoutAt(1, 1)[2].i = W1
  /\ DiagsAt(errors, <<1, 1, 1>>) = <<Diag("missing_widget_id", <<1, 1, 1>>, "")>>
  /\ CountKind(warnings, "may_overlap") = 0

\* validate() returned after looking at every app of an array of app objects
AppsAllValidated ==
  /\ tool = "apps" /\ pc = "returned" /\ appsDoc.t = "list"
  /\ \A a \in 1..Len(appsDoc.xs) : appsDoc.xs[a].kind = "obj"

\* C22: when AppsValidator.validate has returned, every app whose `tabs` is
\* present and is an array or a number (the empty array included) has the
\* 'tabs must be an object' error, and the result is fail.
C22_NonObjectTabsIsError ==
  AppsAllValidated =>
    \A a \in 1..Len(appsDoc.xs) :
      appsDoc.xs[a].tabs.t \in {"list", "other"} =>
        /\ CountAt(errors, "tabs_must_be_object", <<a, 0, 0>>) = 1
        /\ result = "fail"

\* C23: when AppsValidator.validate has returned, every tab whose `layout` is
\* present and is an object or a number (the empty object included) has the
\* 'layout must be an array' error, and every tab whose layout is the empty
\* array has the 'Empty layout' warning, no error and no diagnostic for a
\* layout item.
C23_NonArrayLayoutIsError ==
  AppsAllValidated =>
    \A a \in 1..Len(appsDoc.xs) :
      HasTabs(appsDoc.xs[a]) =>
        \A t \in 1..Len(appsDoc.xs[a].tabs.xs) :
          LET tab == appsDoc.xs[a].tabs.xs[t]
          IN tab.kind = "obj" =>
               /\ tab.layout.t \in {"obj", "other"} =>
                    CountAt(errors, "layout_must_be_array", <<a, t, 0>>) = 1
               /\ tab.layout = JList(<<>>) =>
                    /\ CountAt(warnings, "empty_layout", <<a, t, 0>>) = 1
                    /\ DiagsAt(errors, <<a, t, 0>>) = <<>>
                    /\ \A n \in 1..Len(errors) : errors[n][2][1] = a /\ errors[n][2][2] = t
                                                   => errors[n][2][3] = 0

\* the groups of an app that reach the loop over widgetIds
ListedIds(g) == IF g.kind = "obj" /\ g.widgetIds.t = "list" THEN g.widgetIds.xs ELSE <<>>
AppGroups(app) == IF app.kind = "obj" /\ app.groups.t = "list" THEN app.groups.xs ELSE <<>>
AllIdsAreStrings(app) ==
  \A k \in 1..Len(AppGroups(app)) :
    \A j \in 1..Len(ListedIds(AppGroups(app)[k])) : ListedIds(AppGroups(app)[k])[j].t = "str"
UnknownGroupType(g) ==
  g.kind = "obj" /\ g.type \notin {Absent, ""} /\ g.type \notin ValidGroupTypes

C25_RefetchIntervalNumberOrFalse ==
  WidgetsAllValidated =>
    \A k \in 1..Len(widgetsDoc.xs) :
      LET r == widgetsDoc.xs[k].refetchInterval
      IN /\ CountAt(errors, "refetchInterval_must_be_number_or_false", <<k, 0, 0>>)
              = (IF r.t \in {"str", "true"} THEN 1 ELSE 0)
         /\ CountAt(warnings, "refetchInterval_very_low", <<k, 0, 0>>)
              = (IF r.t = "num" /\ r.n < RefetchMin THEN 1 ELSE 0)

\* C26: once WidgetValidator.validate has returned over an object of widget
\* objects, every flattened parameter object that carries an `options` list
\* has, whatever its type, one 'missing value' error per option without a
\* `value` key.
C26_EveryOptionNeedsValue ==
  WidgetsAllValidated =>
    \A k \in 1..Len(widgetsDoc.xs) :
      LET w == widgetsDoc.xs[k]
          flat == IF w.params.t = "list" THEN FlattenParams(w.params.xs) ELSE <<>>
      IN \A j \in 1..Len(flat) :
           (flat[j].kind = "obj" /\ flat[j].options.t = "list")
             => CountAt(errors, "option_missing_value", <<k, j, 0>>)
                  = Cardinality({o \in 1..Len(flat[j].options.xs) :
                                   flat[j].options.xs[o] = "novalue"})

\* params made of parameter objects and one-level rows of parameter objects
OneLevelParams(w) ==
  /\ w.kind = "obj" /\ w.params.t = "list"
  /\ \A k \in 1..Len(w.params.xs) :
       LET p == w.params.xs[k]
       IN \/ p.kind = "obj"
          \/ p.kind = "row" /\ \A j \in 1..Len(p.row) : p.row[j].kind = "obj"
\* the number of leaves in the first k elements of xs
LeavesBefore(xs, k) ==
  LET F[i \in 0..Len(xs)] ==
        IF i = 0 THEN 0
        ELSE F[i - 1] + (IF xs[i].kind = "row" THEN Len(xs[i].row) ELSE 1)
  IN F[k]
InDocumentOrder(xs, flat) ==
  /\ Len(flat) = LeavesBefore(xs, Len(xs))
  /\ \A k \in 1..Len(xs) :
       IF xs[k].kind = "row"
       THEN \A j \in 1..Len(xs[k].row) : flat[LeavesBefore(xs, k - 1) + j] = xs[k].row[j]
       ELSE flat[LeavesBefore(xs, k - 1) + 1] = xs[k]

\* C27: for every request the prober has made for a widget whose params are
\* parameter objects and one-level rows of parameter objects, the
\* validator's flattened sequence lists the leaves in document order, each
\* row expanded in place, and the names handed to the request are exactly
\* the paramName values of those leaves.
C27_ProberSendsTheValidatorsLeaves ==
  \A n \in 1..Len(WidgetRequests) :
    LET w == Widgets[WidgetRequests[n].widget]
    IN OneLevelParams(w) =>
         LET flat == FlattenParams(w.params.xs)
         IN /\ InDocumentOrder(w.params.xs, flat)
            /\ WidgetRequests[n].params
                 = {flat[i].paramName :
                      i \in {i \in 1..Len(flat) : flat[i].paramName # Absent}}

\* a probed widget whose params hold a row between two parameter objects;
\* one leaf has no name and one name occurs twice
C27_RowBetweenParamsProbed ==
  /\ tool = "endpoints" /\ pc = "returned" /\ Len(WidgetRequests) = 1
  /\ OneLevelParams(Widgets[1])
  /\ Len(Widgets[1].params.xs) = 3 /\ Widgets[1].params.xs[2].kind = "row"
  /\ Len(FlattenParams(Widgets[1].params.xs)) = 4
  /\ WidgetRequests[1].params = {"a", "c"}

FailedResults(rs) == SelectSeq(rs, LAMBDA r : ~r.success)

\* C28: every step of EndpointValidator.validate_all that appends a result
\* with success = false appends an error too, and a run that returns pass
\* has recorded only results with success = true.
C28_FailedResultComesWithError ==
  [][ /\ Len(FailedResults(results')) > Len(FailedResults(results))
           => Len(errors') > Len(errors)
      /\ (tool = "endpoints" /\ pc' = "returned" /\ result' = "pass")
           => FailedResults(results') = <<>> ]_vars

\* C29: there is never more than one connect_to_binance_websocket task for
\* a stream key, whatever the clients do, and no client is sent the same
\* kline message twice.
C29_OneTaskPerStreamKey ==
  /\ \A s \in StreamKeys : Cardinality(TasksOf(s)) <= 1
  /\ \A c \in Clients :
       \A i, j \in 1..Len(received[c]) : received[c][i] = received[c][j] => i = j

\* C30: no disconnect handler and no broadcast clean-up has raised KeyError,
\* and a WebSocket whose disconnect handler has completed is in no set of
\* active_connections.
C30_NoKeyErrorOnDeletedStreamKey ==
  /\ \A c \in Clients : sockets[c].pc # "KeyError"
  /\ \A t \in 1..Len(tasks) : tasks[t].raised # "KeyError"
  /\ \A c \in Clients :
       sockets[c].pc = "closed" => \A s \in StreamKeys : c \notin active_connections[s].conns

====
